---- MODULE Spec2Model ----
(***************************************************************************)
(* Point-of-sale checkout, returns and bill numbering of the toy store     *)
(* application (app.py, models.py) over one SQLite database file.          *)
(*                                                                         *)
(* Every request handler runs on its own connection (get_db), and          *)
(* get_next_bill_number opens one more connection of its own.  The         *)
(* connections are opened by connect_db with isolation_level=None, so a    *)
(* statement outside BEGIN..COMMIT is its own transaction.  The database   *)
(* is in SQLite's default rollback-journal mode: any number of readers     *)
(* (SHARED), at most one writer (RESERVED) whose changes stay in its       *)
(* private page cache until its commit, and a commit needs every other     *)
(* reader gone (EXCLUSIVE).                                                *)
(***************************************************************************)
EXTENDS Integers, Sequences, FiniteSets, TLC

\* ---------------------------------------------------------------- bounds
NumProcs == 2
NumProducts == 3
MaxReq == 2
MaxFaults == 1
MaxTime == 1
MaxNames == 2
MaxRows == 1
InitStock == 3
MaxCartQty == 2
MaxLines == 2
MaxReturnQty == 1
MaxFormQty == 1
MaxPrice == 1
MaxOrigBill == 1
MaxDay == 3
MaxBills == 2
MaxDiscountSteps == 1
MaxDiscountId == 1
MaxPercentSteps == 1
PercentStep == 10
\* Money is counted in thousandths of a rupee: the price of product 1 and
\* the step of the bill discounts.
PriceUnit == 1020
DiscountUnit == 102

\* utils.py: for i in range(7) / range(4) / range(12)
DailyPeriods == 7
WeeklyPeriods == 4
MonthlyPeriods == 12

\* models.py line 152: next_bill_no = 1
DefaultBillNo == 1

Procs == 1..NumProcs
Products == 1..NumProducts

VARIABLES
  db,      \* the committed content of the database file
  lock,    \* per connection: "none", "shared" or "reserved"
  work,    \* per connection: the private image of a writer (its page cache)
  rq,      \* per request handler: the request it is serving and its position
  issued,  \* history: the numbers returned by successful counter transactions
  nreq,    \* requests started so far
  faults,  \* storage errors raised so far
  images,  \* the barcodes with an image file in static/barcodes
  session, \* the session of one browser: its cart and its selected discount
  now,     \* the clock that datetime.now() reads
  canDrop  \* the SQLite library knows ALTER TABLE .. DROP COLUMN (3.35.0 on)

vars == <<db, lock, work, rq, issued, nreq, faults, images, session, now, canDrop>>

\* ------------------------------------------------------------ connections
DbConn(p) == <<p, "db">>
SeqConn(p) == <<p, "seq">>
Conns == Procs \X {"db", "seq"}

NoQty == [x \in Products |-> 0]

\* The discounts table: its columns besides id and name, and its rows; a
\* column holds the set of its value, empty for NULL or for a column that
\* the table does not have.
NewColumns == {"discount_type", "value"}
NoDiscounts == [cols |-> NewColumns, rows |-> {}]

NoTxn ==
  [prod |-> {}, qty |-> NoQty, code |-> NoQty, lastId |-> 0, hasSeq |-> FALSE,
   lastBillNo |-> 0, sales |-> {}, returns |-> {}, users |-> {},
   discounts |-> NoDiscounts]

\* Another connection holds the write lock (RESERVED or above).
OthersReserved(c) == \E d \in Conns \ {c} : lock[d] = "reserved"

\* Another connection holds a read lock (SHARED).
OthersShared(c) == \E d \in Conns \ {c} : lock[d] = "shared"

\* What a SELECT on connection c reads.
View(c) == IF lock[c] = "reserved" THEN work[c] ELSE db

\* A counter transaction that reads and writes without taking the write lock
\* first.
BeginUnlocked(c) == TRUE

\* BEGIN IMMEDIATE: the write lock is taken before anything is read; the busy
\* handler (timeout=30) waits while another connection holds it.
BeginImmediate(c) == ~OthersReserved(c)

\* A connection with no read transaction open asks for the write lock: the
\* busy handler waits while another connection holds it.
WaitReserved(c) == lock[c] = "reserved" \/ ~OthersReserved(c)

\* COMMIT: the writer needs the exclusive lock, so it waits for the readers.
CanCommit(c) == ~OthersShared(c)

\* connect_db issues no PRAGMA foreign_keys = ON (init_db does, for its own
\* connection only), so the request connections do not enforce the REFERENCES
\* clauses of the schema.
ForeignKeys == FALSE

\* products.quantity INTEGER NOT NULL DEFAULT 0 CHECK(quantity >= 0)
CheckQuantity(q) == q >= 0

\* ----------------------------------------------------------------- carts
Items == [id : Products, qty : 1..MaxCartQty]

\* The session cart holds each product id at most once.
IsCart(s) == \A i, j \in 1..Len(s) : i # j => s[i].id # s[j].id

Carts(maxid) ==
  {s \in UNION {[1..n -> Items] : n \in 0..MaxLines} :
     IsCart(s) /\ \A i \in 1..Len(s) : s[i].id <= maxid}

\* A session in which nothing was put: no cart item, no discount selected.
NoSession == [cart |-> <<>>, did |-> 0]

Idle ==
  [kind |-> "none", pc |-> "idle", cart |-> <<>>, idx |-> 0, bill |-> 0,
   billOk |-> FALSE, adv |-> 0, seen |-> 0, pid |-> 0, q |-> 0,
   price |-> 0, obill |-> 0, pay |-> "", prn |-> "none", flash |-> "none",
   per |-> "none", a |-> 0, b |-> 0, rep |-> <<>>,
   own |-> FALSE, did |-> 0, code |-> 0, time |-> 0,
   who |-> "none", name |-> 0, role |-> "none", post |-> FALSE,
   old |-> NoDiscounts, prev |-> "none",
   out |-> "none", rid |-> 0]

\* ------------------------------------------------------------------ Init
\* The first account: registered while the users table was empty.
FirstUser == [id |-> 1, name |-> 1, role |-> "admin", byAdmin |-> FALSE]

\* The store after init_db, the registration of its admin and the first
\* add_product requests: every product but the last one is on sale with
\* InitStock pieces under the barcode of its number, no bill was issued yet,
\* no discount is stored.
Init ==
  /\ db = [prod |-> 1..(NumProducts - 1),
           qty |-> [x \in Products |-> IF x < NumProducts THEN InitStock ELSE 0],
           code |-> [x \in Products |-> IF x < NumProducts THEN x ELSE 0],
           lastId |-> NumProducts - 1,
           hasSeq |-> TRUE, lastBillNo |-> 0,
           sales |-> {}, returns |-> {}, users |-> {FirstUser},
           discounts |-> NoDiscounts]
  /\ lock = [c \in Conns |-> "none"]
  /\ work = [c \in Conns |-> NoTxn]
  /\ rq = [p \in Procs |-> Idle]
  /\ issued = <<>>
  /\ nreq = 0
  /\ faults = 0
  /\ images = 1..(NumProducts - 1)
  /\ session = NoSession
  /\ now = 0
  /\ canDrop = TRUE

\* ------------------------------------------------- get_next_bill_number
\* The increment forgotten: the number read is handed out again.
NextBillNoStale(last_no) == last_no

NextBillNo(last_no) == last_no + 1

\* conn.rollback() / conn.close(): the private image is dropped.
Release(c) ==
  /\ lock' = [lock EXCEPT ![c] = "none"]
  /\ work' = [work EXCEPT ![c] = NoTxn]

\* conn.commit(): the private image becomes the file.
Commit(c) ==
  /\ db' = work[c]
  /\ Release(c)

\* An error path that commits what the transaction has written so far.
GnbCommitOnError(c) == Commit(c)

\* except sqlite3.Error: conn.rollback()
GnbRollback(c) ==
  /\ db' = db
  /\ Release(c)

\* BEGIN IMMEDIATE; SELECT last_bill_no; UPDATE (or INSERT when the row is
\* missing).  The statements after BEGIN IMMEDIATE touch only the private
\* image of the connection.
GnbBegin(p) ==
  /\ rq[p].pc = "gnb_begin"
  /\ BeginImmediate(SeqConn(p))
  /\ LET c == SeqConn(p)
         n == IF db.hasSeq THEN NextBillNo(db.lastBillNo) ELSE DefaultBillNo
     IN /\ lock' = [lock EXCEPT ![c] = "reserved"]
        /\ work' = [work EXCEPT ![c] = [db EXCEPT !.hasSeq = TRUE, !.lastBillNo = n]]
        /\ rq' = [rq EXCEPT ![p].pc = "gnb_commit", ![p].bill = n]
  /\ UNCHANGED <<db, issued, nreq, faults, images, session, now, canDrop>>

\* conn.commit(); return next_bill_no
GnbCommit(p) ==
  /\ rq[p].pc = "gnb_commit"
  /\ CanCommit(SeqConn(p))
  /\ Commit(SeqConn(p))
  /\ rq' = [rq EXCEPT ![p].pc = "co_select", ![p].billOk = TRUE,
                      ![p].adv = work[SeqConn(p)].lastBillNo - db.lastBillNo]
  /\ issued' = Append(issued, rq[p].bill)
  /\ UNCHANGED <<nreq, faults, images, session, now, canDrop>>

\* sqlite3.Error at BEGIN IMMEDIATE or at the SELECT: next_bill_no is still
\* its default, which is returned.
GnbFailEarly(p) ==
  /\ rq[p].pc = "gnb_begin"
  /\ faults < MaxFaults
  /\ faults' = faults + 1
  /\ rq' = [rq EXCEPT ![p].pc = "co_select", ![p].bill = DefaultBillNo,
                      ![p].billOk = FALSE]
  /\ UNCHANGED <<db, lock, work, issued, nreq, images, session, now, canDrop>>

\* sqlite3.Error at the UPDATE, the INSERT or the commit: the transaction is
\* rolled back and next_bill_no, already computed, is returned.
GnbFailLate(p) ==
  /\ rq[p].pc = "gnb_commit"
  /\ faults < MaxFaults
  /\ faults' = faults + 1
  /\ GnbRollback(SeqConn(p))
  /\ rq' = [rq EXCEPT ![p].pc = "co_select", ![p].billOk = FALSE]
  /\ UNCHANGED <<issued, nreq, images, session, now, canDrop>>

\* ------------------------------------------------- billing: checkout
\* if not stock or stock['quantity'] < item_processed['qty']
Insufficient(v, item) == item.id \notin v.prod \/ v.qty[item.id] < item.qty

\* The end of a request: its scratch values are dropped; its outcome and the
\* product (for a failed checkout: the line and its product) that the message
\* shown to the user names are kept.  A checkout that did not succeed leaves
\* the cart in the session; a successful one sets session['cart'] = [].
Ended(r, outcome) ==
  [Idle EXCEPT !.kind = r.kind, !.out = outcome, !.rid = r.rid,
               !.own = r.own, !.did = r.did, !.code = r.code,
               !.who = r.who,
               !.cart = IF r.kind = "checkout" /\ outcome # "ok"
                        THEN r.cart ELSE <<>>,
               !.idx = IF r.kind = "checkout" /\ outcome # "ok" THEN r.idx ELSE 0,
               !.pid = IF r.kind # "checkout" THEN r.pid
                       ELSE IF outcome # "ok" THEN r.cart[r.idx].id ELSE 0,
               !.q = IF r.kind = "checkout" /\ outcome # "ok"
                     THEN r.cart[r.idx].qty ELSE 0]

\* A request is taken by a free handler; the handlers run the same code, so
\* the free handler with the least number takes it.
CanStart(p) ==
  /\ rq[p].pc = "idle"
  /\ nreq < MaxReq
  /\ \A o \in Procs : o < p => rq[o].pc # "idle"

\* The payment_method field of the checkout form: absent ("none" here), empty
\* or a method.
PayMethods == {"none", "", "cash"}

\* POST /billing with checkout_and_print arrives with the cart of its session
\* and its form.
StartCheckout(p) ==
  /\ CanStart(p)
  /\ nreq' = nreq + 1
  /\ \E cart \in Carts(db.lastId), pay \in PayMethods :
       rq' = [rq EXCEPT ![p] =
                [Idle EXCEPT !.kind = "checkout", !.pc = "co_validate",
                             !.cart = cart, !.pay = pay, !.rid = nreq + 1]]
  /\ UNCHANGED <<db, lock, work, issued, faults, images, session, now, canDrop>>

\* A check that takes any form for a payment.
PaymentAny(pay) == TRUE

\* if not payment_method_from_form: rejected
PaymentGiven(pay) == pay \notin {"none", ""}

\* sale_time = datetime.now(), read before get_next_bill_number is called.
SaleTime(r, clock) == clock

\* if not cart_for_sale / if not payment_method_from_form: the request is
\* answered with a warning before the bill number is requested; otherwise
\* the totals are computed, the clock is read and get_next_bill_number is
\* called.
CoValidate(p) ==
  /\ rq[p].pc = "co_validate"
  /\ rq' = [rq EXCEPT ![p] =
              IF rq[p].cart = <<>> \/ ~PaymentGiven(rq[p].pay)
              THEN [Idle EXCEPT !.kind = "checkout", !.cart = rq[p].cart,
                                !.own = rq[p].own, !.did = rq[p].did,
                                !.out = "rejected", !.rid = rq[p].rid]
              ELSE [rq[p] EXCEPT !.pc = "gnb_begin", !.idx = 1, !.pay = "",
                                 !.time = SaleTime(rq[p], now)]]
  /\ UNCHANGED <<db, lock, work, issued, nreq, faults, images, session, now, canDrop>>

\* The lines written so far are committed instead of rolled back.
CheckoutKeepsLines(c) ==
  IF lock[c] = "reserved" THEN Commit(c) ELSE db' = db /\ Release(c)

\* db.rollback() after insufficient stock or an exception
CheckoutRollback(c) ==
  /\ db' = db
  /\ Release(c)

\* The sale is recorded and the stock is left as it was.
NewQuantitySame(stock, qty) == stock

\* UPDATE products SET quantity = quantity - ? WHERE id = ?
NewQuantity(stock, qty) == stock - qty

\* The SELECT run outside a transaction: its read lock ends with the
\* statement.
ReadLockDropped(c) == lock[c]

\* The lock a connection holds after a SELECT inside BEGIN .. COMMIT: the read
\* lock is kept until the transaction ends.
ReadLock(c) == IF lock[c] = "none" THEN "shared" ELSE lock[c]

\* SELECT quantity FROM products WHERE id = ?, and the stock check.  The
\* first SELECT after BEGIN takes the read lock, which is kept to the end of
\* the transaction.
CoSelect(p) ==
  /\ rq[p].pc = "co_select"
  /\ LET c == DbConn(p)
         v == View(c)
         item == rq[p].cart[rq[p].idx]
     IN IF Insufficient(v, item)
        THEN /\ CheckoutRollback(c)
             /\ rq' = [rq EXCEPT ![p] = Ended(rq[p], "insufficient")]
        ELSE /\ lock' = [lock EXCEPT ![c] = ReadLock(c)]
             /\ rq' = [rq EXCEPT ![p].pc = "co_write",
                                 ![p].seen = v.qty[item.id]]
             /\ UNCHANGED <<db, work>>
  /\ UNCHANGED <<issued, nreq, faults, images, session, now, canDrop>>

\* float(product_to_add['selling_price']): the price a cart item carries.
Price(pid) == PriceUnit * pid

\* current_item_bill_discount = bill_discount_amount_final if i == 0 else 0.0
LineDiscount(line, bill_discount) == IF line = 1 THEN bill_discount ELSE 0

\* bill_discount_amount_final stays 0.0: get_discount found no row for the
\* selected id (a request whose selected discount is stored does not get
\* this far, see DisplayRaises; init_db creates the discounts table empty
\* and discount_new calls create_discount(name, percent) with one argument
\* too few, which raises).
NoDiscount == 0

\* The row of the sales table, with the stock the line was checked against
\* and the stock its UPDATE was applied to.
SaleRow(r, base) ==
  [rid |-> r.rid, line |-> r.idx, bill |-> r.bill, billOk |-> r.billOk,
   pid |-> r.cart[r.idx].id, qty |-> r.cart[r.idx].qty,
   price |-> Price(r.cart[r.idx].id),
   disc |-> LineDiscount(r.idx, NoDiscount), time |-> r.time,
   seen |-> r.seen, base |-> base.qty[r.cart[r.idx].id]]

\* INSERT INTO sales ...; UPDATE products SET quantity = quantity - ?.
\* The INSERT of the first line asks for the write lock while the connection
\* holds its read lock: SQLite does not wait then, it raises SQLITE_BUSY when
\* another connection is the writer.
CoWrite(p) ==
  /\ rq[p].pc = "co_write"
  /\ LET c == DbConn(p)
         r == rq[p]
         item == r.cart[r.idx]
         base == View(c)
         newq == NewQuantity(base.qty[item.id], item.qty)
     IN IF (lock[c] # "reserved" /\ OthersReserved(c)) \/ ~CheckQuantity(newq)
        THEN /\ CheckoutRollback(c)
             /\ rq' = [rq EXCEPT ![p] = Ended(r, "error")]
        ELSE /\ lock' = [lock EXCEPT ![c] = "reserved"]
             /\ work' = [work EXCEPT ![c] =
                           [base EXCEPT !.sales = @ \cup {SaleRow(r, base)},
                                        !.qty[item.id] = newq]]
             /\ rq' = [rq EXCEPT ![p] =
                         IF r.idx = Len(r.cart)
                         THEN [r EXCEPT !.pc = "co_commit"]
                         ELSE [r EXCEPT !.pc = "co_select", !.idx = @ + 1]]
             /\ db' = db
  /\ UNCHANGED <<issued, nreq, faults, images, session, now, canDrop>>

\* A commit whose failure goes unnoticed: when the readers are in the way the
\* transaction is dropped and the sale is reported as completed all the same.
CoCommitSilent(p) ==
  /\ rq[p].pc = "co_commit"
  /\ IF CanCommit(DbConn(p))
     THEN Commit(DbConn(p))
     ELSE CheckoutRollback(DbConn(p))
  /\ rq' = [rq EXCEPT ![p].pc = "co_print", ![p].out = "ok"]
  /\ UNCHANGED <<issued, nreq, faults, images, session, now, canDrop>>

\* db.commit(), then flash("Sale completed! ...", "success")
CoCommit(p) ==
  /\ rq[p].pc = "co_commit"
  /\ CanCommit(DbConn(p))
  /\ Commit(DbConn(p))
  /\ rq' = [rq EXCEPT ![p].pc = "co_print", ![p].out = "ok"]
  /\ UNCHANGED <<issued, nreq, faults, images, session, now, canDrop>>

\* What print_thermal_receipt can come to: win32print is missing (also the
\* case in which it is not called at all), the printer cannot be found,
\* opened or written, or the receipt is printed.
PrintResults == {"no_win32print", "printer_error", "printed"}

\* A print status that is always shown as a success.
PrintMessageSilent(res) == "info"

\* if print_success_flag: flash(..., "info") else: flash(..., "warning")
PrintMessage(res) == IF res = "printed" THEN "info" ELSE "warning"

\* A sale after which the selected discount stays in the session.
SessionKeepsDiscount(ses) == [ses EXCEPT !.cart = <<>>]

\* session['cart'] = []; del session['applied_bill_discount_id']
SessionAfterSale(ses) == [ses EXCEPT !.cart = <<>>, !.did = 0]

\* The receipt is printed, or not: print_thermal_receipt returns its status,
\* it raises nothing; the status is flashed, the cart of the session is
\* emptied and the request ends.
CoPrint(p) ==
  /\ rq[p].pc = "co_print"
  /\ \E res \in PrintResults :
       rq' = [rq EXCEPT ![p] =
                [Ended(rq[p], "ok") EXCEPT !.prn = res,
                                           !.flash = PrintMessage(res)]]
  /\ session' = IF rq[p].own THEN SessionAfterSale(session) ELSE session
  /\ UNCHANGED <<db, lock, work, issued, nreq, faults, images, now, canDrop>>

\* get_discount(id), on a connection of its own: the rows with that id; none
\* also when the SELECT of id, name, discount_type, value fails for a column
\* that the table does not have.
GetDiscount(v, id) ==
  IF NewColumns \subseteq v.discounts.cols
  THEN {d \in v.discounts.rows : d.id = id}
  ELSE {}

\* applied_discount_details['percent'] / 100, where 'percent' is field 2 of
\* the tuple (id, name, discount_type, value): the discount_type, a str (the
\* column is TEXT) or None, which cannot be divided.  The TypeError is raised
\* before the try of the handler, at every request to /billing of a session
\* whose selected discount is stored.
DisplayRaises(v, did) == did # 0 /\ GetDiscount(v, did) # {}

\* The requests of the browser are sent one after the other.
OwnIdle == \A o \in Procs : rq[o].own => rq[o].pc = "idle"

\* POST /billing with checkout_and_print from the browser whose session is
\* followed: the cart and the selected discount are the ones of the session.
StartOwnCheckout(p) ==
  /\ CanStart(p)
  /\ OwnIdle
  /\ nreq' = nreq + 1
  /\ \E pay \in PayMethods :
       rq' = [rq EXCEPT ![p] =
                IF DisplayRaises(db, session.did)
                THEN [Idle EXCEPT !.kind = "checkout", !.cart = session.cart,
                                  !.own = TRUE, !.did = session.did,
                                  !.out = "crash", !.rid = nreq + 1]
                ELSE [Idle EXCEPT !.kind = "checkout", !.pc = "co_validate",
                                  !.cart = session.cart, !.pay = pay,
                                  !.own = TRUE, !.did = session.did,
                                  !.rid = nreq + 1]]
  /\ UNCHANGED <<db, lock, work, issued, faults, images, session, now, canDrop>>

\* except Exception: db.rollback(), the error message
CoFault(p) ==
  /\ rq[p].pc \in {"co_select", "co_write", "co_commit"}
  /\ faults < MaxFaults
  /\ faults' = faults + 1
  /\ CheckoutRollback(DbConn(p))
  /\ rq' = [rq EXCEPT ![p] = Ended(rq[p], "error")]
  /\ UNCHANGED <<issued, nreq, images, session, now, canDrop>>

\* ------------------------------------------------- billing: the cart
\* The place of a product in a cart, 0 when it is not in it.
CartIndex(cart, pid) ==
  IF \E i \in 1..Len(cart) : cart[i].id = pid
  THEN CHOOSE i \in 1..Len(cart) : cart[i].id = pid
  ELSE 0

\* WHERE barcode=? AND quantity > 0 (an empty barcode, 0 here, is refused
\* before the query) and WHERE id=? AND quantity > 0
ScanLookup(v, code) ==
  {x \in v.prod : code # 0 /\ v.code[x] = code /\ v.qty[x] > 0}
ManualLookup(v, pid) == {x \in v.prod : x = pid /\ v.qty[x] > 0}

\* An add that always appends a new item.
CartAppended(cart, pid) == Append(cart, [id |-> pid, qty |-> 1])

\* if item_found: item_found['qty'] += 1 else: cart_session.append({...,
\* 'qty': 1})
CartAdded(cart, pid) ==
  IF CartIndex(cart, pid) # 0
  THEN [cart EXCEPT ![CartIndex(cart, pid)].qty = @ + 1]
  ELSE Append(cart, [id |-> pid, qty |-> 1])

\* The carts of the model: at most MaxLines items of at most MaxCartQty
\* pieces.
CartFits(cart) ==
  /\ Len(cart) <= MaxLines
  /\ \A i \in 1..Len(cart) : cart[i].qty <= MaxCartQty

\* What an add request does to the session, given the rows its lookup found.
AddToCart(found) ==
  /\ OwnIdle
  /\ ~DisplayRaises(db, session.did)
  /\ found # {}
  /\ LET pid == CHOOSE x \in found : TRUE
     IN /\ CartFits(CartAdded(session.cart, pid))
        /\ session' = [session EXCEPT !.cart = CartAdded(session.cart, pid)]
  /\ UNCHANGED <<db, lock, work, rq, issued, nreq, faults, images, now, canDrop>>

\* POST /billing with a barcode (add_scan)
CartAddScan(code) == AddToCart(ScanLookup(db, code))

\* POST /billing with select_product_id (add_manual)
CartAddManual(pid) == AddToCart(ManualLookup(db, pid))

\* increase_cart_item: one piece more when the stock is above the quantity
\* in the cart.
CartIncreased(cart, pid, stock) ==
  IF CartIndex(cart, pid) # 0 /\ stock > cart[CartIndex(cart, pid)].qty
  THEN [cart EXCEPT ![CartIndex(cart, pid)].qty = @ + 1]
  ELSE cart

\* POST /increase-cart-item/<id>
CartIncrease(pid) ==
  /\ OwnIdle
  /\ CartFits(CartIncreased(session.cart, pid,
                            IF pid \in db.prod THEN db.qty[pid] ELSE 0))
  /\ session' = [session EXCEPT !.cart =
                   CartIncreased(@, pid, IF pid \in db.prod THEN db.qty[pid] ELSE 0)]
  /\ UNCHANGED <<db, lock, work, rq, issued, nreq, faults, images, now, canDrop>>

\* The cart without its item at place i.
CartWithout(cart, i) ==
  [j \in 1..(Len(cart) - 1) |-> IF j < i THEN cart[j] ELSE cart[j + 1]]

\* A decrease that keeps an item of quantity 0 in the cart.
CartDecreasedKept(cart, pid) ==
  IF CartIndex(cart, pid) = 0 THEN cart
  ELSE [cart EXCEPT ![CartIndex(cart, pid)].qty = @ - 1]

\* item['qty'] -= 1; if item['qty'] <= 0: del cart[i]
CartDecreased(cart, pid) ==
  IF CartIndex(cart, pid) = 0 THEN cart
  ELSE IF cart[CartIndex(cart, pid)].qty - 1 <= 0
  THEN CartWithout(cart, CartIndex(cart, pid))
  ELSE [cart EXCEPT ![CartIndex(cart, pid)].qty = @ - 1]

\* POST /decrease-cart-item/<id>
CartDecrease(pid) ==
  /\ OwnIdle
  /\ session' = [session EXCEPT !.cart = CartDecreased(@, pid)]
  /\ UNCHANGED <<db, lock, work, rq, issued, nreq, faults, images, now, canDrop>>

\* cart = [item for item in cart if item.get('id') != product_id]
CartRemoved(cart, pid) ==
  IF CartIndex(cart, pid) = 0 THEN cart
  ELSE CartWithout(cart, CartIndex(cart, pid))

\* POST /remove-cart-item/<id>
CartRemove(pid) ==
  /\ OwnIdle
  /\ session' = [session EXCEPT !.cart = CartRemoved(@, pid)]
  /\ UNCHANGED <<db, lock, work, rq, issued, nreq, faults, images, now, canDrop>>

\* The discount ids a form can carry; 0 stands for the empty field.
DiscountIds == 0..MaxDiscountId

\* POST /billing with apply_discount: the id of the form is put in the
\* session as it is, an empty one clears the selection.
ApplyDiscount(did) ==
  /\ OwnIdle
  /\ ~DisplayRaises(db, session.did)
  /\ session' = [session EXCEPT !.did = did]
  /\ UNCHANGED <<db, lock, work, rq, issued, nreq, faults, images, now, canDrop>>

\* POST /billing with clear_discount
ClearDiscount ==
  /\ OwnIdle
  /\ ~DisplayRaises(db, session.did)
  /\ session' = [session EXCEPT !.did = 0]
  /\ UNCHANGED <<db, lock, work, rq, issued, nreq, faults, images, now, canDrop>>

\* ------------------------------------------------------- return_order
\* The row of the returns table: the original bill identifier is stored as it
\* was typed (0 stands for the empty field, stored as NULL).
ReturnRow(r) ==
  [rid |-> r.rid, pid |-> r.pid, qty |-> r.q, price |-> PriceUnit * r.price,
   obill |-> r.obill]

\* POST /return-order arrives with its form: product, quantity, refund price
\* and the optional original bill identifier.
StartReturn(p) ==
  /\ CanStart(p)
  /\ nreq' = nreq + 1
  /\ \E pid \in Products, q \in 0..MaxReturnQty, price \in -1..MaxPrice,
        obill \in 0..MaxOrigBill :
       rq' = [rq EXCEPT ![p] =
                [Idle EXCEPT !.kind = "return", !.pc = "rt_validate",
                             !.pid = pid, !.q = q, !.price = price,
                             !.obill = obill, !.rid = nreq + 1]]
  /\ UNCHANGED <<db, lock, work, issued, faults, images, session, now, canDrop>>

\* A form check that lets a quantity of 0 through.
ValidReturnAnyQty(found, q, price) == found /\ q >= 0 /\ price >= 0

\* errors stays empty: the product was found, quantity > 0, return_price >= 0.
\* The original bill identifier takes no part in it.
ValidReturn(found, q, price) == found /\ q > 0 /\ price >= 0

\* SELECT name FROM products WHERE id = ?, then the checks of the quantity
\* and of the refund price; any error is flashed and nothing is written.
RtValidate(p) ==
  /\ rq[p].pc = "rt_validate"
  /\ rq' = [rq EXCEPT ![p] =
              IF ValidReturn(rq[p].pid \in db.prod, rq[p].q, rq[p].price)
              THEN [rq[p] EXCEPT !.pc = "rt_write"]
              ELSE Ended(rq[p], "rejected")]
  /\ UNCHANGED <<db, lock, work, issued, nreq, faults, images, session, now, canDrop>>

\* except sqlite3.Error: db.rollback()
ReturnRollback(c) ==
  /\ db' = db
  /\ Release(c)

\* The return is recorded and the stock is left as it was.
ReturnedQuantitySame(stock, qty) == stock

\* UPDATE products SET quantity = quantity + ? WHERE id = ?
ReturnedQuantity(stock, qty) == stock + qty

\* BEGIN; INSERT INTO returns ...; UPDATE products SET quantity = quantity + ?
\* WHERE id = ?.  The UPDATE changes the rows that match, possibly none.
RtWrite(p) ==
  /\ rq[p].pc = "rt_write"
  /\ WaitReserved(DbConn(p))
  /\ LET c == DbConn(p)
         r == rq[p]
         base == View(c)
     IN IF ForeignKeys /\ r.pid \notin base.prod
        THEN /\ ReturnRollback(c)
             /\ rq' = [rq EXCEPT ![p] = Ended(r, "error")]
        ELSE /\ lock' = [lock EXCEPT ![c] = "reserved"]
             /\ work' = [work EXCEPT ![c] =
                           [base EXCEPT !.returns = @ \cup {ReturnRow(r)},
                                        !.qty[r.pid] =
                                           IF r.pid \in base.prod
                                           THEN ReturnedQuantity(@, r.q)
                                           ELSE @]]
             /\ rq' = [rq EXCEPT ![p].pc = "rt_commit"]
             /\ db' = db
  /\ UNCHANGED <<issued, nreq, faults, images, session, now, canDrop>>

\* db.commit(), then the success message
RtCommit(p) ==
  /\ rq[p].pc = "rt_commit"
  /\ CanCommit(DbConn(p))
  /\ Commit(DbConn(p))
  /\ rq' = [rq EXCEPT ![p] = Ended(rq[p], "ok")]
  /\ UNCHANGED <<issued, nreq, faults, images, session, now, canDrop>>

RtFault(p) ==
  /\ rq[p].pc \in {"rt_write", "rt_commit"}
  /\ faults < MaxFaults
  /\ faults' = faults + 1
  /\ ReturnRollback(DbConn(p))
  /\ rq' = [rq EXCEPT ![p] = Ended(rq[p], "error")]
  /\ UNCHANGED <<issued, nreq, images, session, now, canDrop>>

\* A statement outside BEGIN is rolled back by SQLite when it fails.
AutoRollback(c) ==
  /\ db' = db
  /\ Release(c)

\* ------------------------------------------------------------ sessions
\* The sessions a request can come with: one that never logged in, or the
\* session login() filled for a user of the users table, which carries the
\* role of that user.
Sessions(v) == {"guest"} \cup {u.role : u \in v.users}

\* A route that does not look at the session.
LoggedInAny(who) == TRUE

\* if 'user' not in session: flash("Please log in."); redirect to login
LoggedIn(who) == who # "guest"

\* ---------------------------------------------------------------- dbfix
\* column_exists(cur, 'discounts', column_name)
ColumnExists(D, c) == c \in D.cols

\* ALTER TABLE discounts ADD COLUMN c: the rows hold NULL in it.
AddColumn(D, c) == [D EXCEPT !.cols = @ \cup {c}]

\* COALESCE(percent, 0.0)
Coalesce(x) == IF x = {} THEN {0} ELSE x

\* The value column filled with 0.0 whatever the percent.
PopulatedRowZero(r, hasPercent) ==
  IF r.dtype = {} \/ r.value = {}
  THEN [r EXCEPT !.dtype = {"percentage"}, !.value = {0}]
  ELSE r

\* Step 3.  With 'percent': UPDATE discounts SET discount_type =
\* 'percentage', value = COALESCE(percent, 0.0) WHERE discount_type IS NULL
\* OR value IS NULL.  Without it: SET discount_type = 'percentage', value =
\* 0.0 WHERE discount_type IS NULL.
PopulatedRow(r, hasPercent) ==
  IF hasPercent
  THEN IF r.dtype = {} \/ r.value = {}
       THEN [r EXCEPT !.dtype = {"percentage"}, !.value = Coalesce(r.percent)]
       ELSE r
  ELSE IF r.dtype = {}
       THEN [r EXCEPT !.dtype = {"percentage"}, !.value = {0}]
       ELSE r

\* UPDATE discounts SET discount_type = 'percentage' WHERE discount_type IS
\* NULL; UPDATE discounts SET value = 0.0 WHERE value IS NULL
DefaultedRow(r) ==
  [r EXCEPT !.dtype = IF @ = {} THEN {"percentage"} ELSE @,
            !.value = IF @ = {} THEN {0} ELSE @]

\* ALTER TABLE discounts DROP COLUMN percent
DropColumn(D) ==
  [cols |-> D.cols \ {"percent"},
   rows |-> {[r EXCEPT !.percent = {}] : r \in D.rows}]

\* python dbfix.py, answered yes: the script is run by hand, one run at a
\* time, while no request is served.
StartMigrate(p) ==
  /\ CanStart(p)
  /\ \A o \in Procs : rq[o].pc = "idle"
  /\ nreq' = nreq + 1
  /\ rq' = [rq EXCEPT ![p] =
              [Idle EXCEPT !.kind = "migrate", !.pc = "mg_check",
                           !.old = db.discounts,
                           !.prev = IF rq[p].kind = "migrate" THEN rq[p].out
                                    ELSE "none",
                           !.rid = nreq + 1]]
  /\ UNCHANGED <<db, lock, work, issued, faults, images, session, now, canDrop>>

\* The end of a run: what the run found and the outcome of the run before
\* it stay on record.
MgEnded(r, outcome) ==
  [Ended(r, outcome) EXCEPT !.old = r.old, !.prev = r.prev]

\* Step 1: a table with both new columns and without 'percent' is left
\* alone.
MgCheck(p) ==
  /\ rq[p].pc = "mg_check"
  /\ rq' = [rq EXCEPT ![p] =
              IF /\ ColumnExists(View(DbConn(p)).discounts, "discount_type")
                 /\ ColumnExists(View(DbConn(p)).discounts, "value")
                 /\ ~ColumnExists(View(DbConn(p)).discounts, "percent")
              THEN MgEnded(rq[p], "skipped")
              ELSE [rq[p] EXCEPT !.pc = "mg_add_type"]]
  /\ UNCHANGED <<db, lock, work, issued, nreq, faults, images, session, now, canDrop>>

\* Step 2, ALTER TABLE discounts ADD COLUMN discount_type TEXT if the column
\* is missing.  No transaction is open (the sqlite3 module opens one before
\* an UPDATE, not before an ALTER), so the statement is committed as it
\* ends.
MgAddType(p) ==
  /\ rq[p].pc = "mg_add_type"
  /\ WaitReserved(DbConn(p))
  /\ db' = IF ColumnExists(db.discounts, "discount_type") THEN db
           ELSE [db EXCEPT !.discounts = AddColumn(@, "discount_type")]
  /\ rq' = [rq EXCEPT ![p].pc = "mg_add_value"]
  /\ UNCHANGED <<lock, work, issued, nreq, faults, images, session, now, canDrop>>

\* Step 2, ALTER TABLE discounts ADD COLUMN value REAL if the column is
\* missing.
MgAddValue(p) ==
  /\ rq[p].pc = "mg_add_value"
  /\ WaitReserved(DbConn(p))
  /\ db' = IF ColumnExists(db.discounts, "value") THEN db
           ELSE [db EXCEPT !.discounts = AddColumn(@, "value")]
  /\ rq' = [rq EXCEPT ![p].pc = "mg_populate"]
  /\ UNCHANGED <<lock, work, issued, nreq, faults, images, session, now, canDrop>>

\* Step 3: the UPDATE opens the transaction of the run.
MgPopulate(p) ==
  /\ rq[p].pc = "mg_populate"
  /\ WaitReserved(DbConn(p))
  /\ lock' = [lock EXCEPT ![DbConn(p)] = "reserved"]
  /\ work' = [work EXCEPT ![DbConn(p)] =
                [db EXCEPT !.discounts.rows =
                   {PopulatedRow(r, ColumnExists(db.discounts, "percent")) :
                      r \in @}]]
  /\ rq' = [rq EXCEPT ![p].pc = "mg_defaults"]
  /\ UNCHANGED <<db, issued, nreq, faults, images, session, now, canDrop>>

\* The two UPDATEs of lines 110 and 111.
MgDefaults(p) ==
  /\ rq[p].pc = "mg_defaults"
  /\ work' = [work EXCEPT ![DbConn(p)].discounts.rows =
                {DefaultedRow(r) : r \in @}]
  /\ rq' = [rq EXCEPT ![p].pc = "mg_drop"]
  /\ UNCHANGED <<db, lock, issued, nreq, faults, images, session, now, canDrop>>

\* Step 5: 'percent' is dropped if it is there.  A library older than
\* 3.35.0 answers `near "DROP": syntax error`: the run prints its warning,
\* leaves the column and goes on to its commit.
MgDrop(p) ==
  /\ rq[p].pc = "mg_drop"
  /\ work' = [work EXCEPT ![DbConn(p)].discounts =
                IF ColumnExists(@, "percent") /\ canDrop
                THEN DropColumn(@) ELSE @]
  /\ rq' = [rq EXCEPT ![p].pc = "mg_commit"]
  /\ UNCHANGED <<db, lock, issued, nreq, faults, images, session, now, canDrop>>

\* conn.commit(): "migration completed successfully"
MgCommit(p) ==
  /\ rq[p].pc = "mg_commit"
  /\ CanCommit(DbConn(p))
  /\ Commit(DbConn(p))
  /\ rq' = [rq EXCEPT ![p] = MgEnded(rq[p], "ok")]
  /\ UNCHANGED <<issued, nreq, faults, images, session, now, canDrop>>

\* except sqlite3.Error: conn.rollback().  Also the OperationalError of a
\* DROP COLUMN that SQLite refuses (an index on the column, for one), whose
\* text is neither of the two the handler looks for: it is raised again.
\* The columns added in step 2 stay.
MgFault(p) ==
  /\ rq[p].pc \in {"mg_check", "mg_add_type", "mg_add_value", "mg_populate",
                   "mg_defaults", "mg_drop", "mg_commit"}
  /\ faults < MaxFaults
  /\ faults' = faults + 1
  /\ AutoRollback(DbConn(p))
  /\ rq' = [rq EXCEPT ![p] = MgEnded(rq[p], "error")]
  /\ UNCHANGED <<issued, nreq, images, session, now, canDrop>>

\* ------------------------------------------------------------- register
\* Registration open to every session.
MayRegisterAny(v, who) == TRUE

\* if user_count == 0 or ('user' in session and session.get('role') == 'admin')
MayRegister(v, who) == v.users = {} \/ who = "admin"

\* if not username or not password_input or role not in ['admin', 'cashier']
ValidForm(name, role) == name # 0 /\ role \in {"admin", "cashier"}

\* SELECT id FROM users WHERE username=?; the UNIQUE of the username column
NameTaken(v, name) == \E u \in v.users : u.name = name

\* id INTEGER PRIMARY KEY AUTOINCREMENT: the users table never loses a row,
\* so the next id is the number of rows plus one.
NewUser(v, r) ==
  [id |-> Cardinality(v.users) + 1, name |-> r.name, role |-> r.role,
   byAdmin |-> (r.who = "admin")]

\* /register arrives: a GET or a POST with its form, from any session.  The
\* username field holds a name or is empty (0); the role field holds one of
\* the two roles or something else.
StartRegister(p) ==
  /\ CanStart(p)
  /\ nreq' = nreq + 1
  /\ \E who \in Sessions(db), post \in BOOLEAN, name \in 0..MaxNames,
        role \in {"admin", "cashier", "other"} :
       rq' = [rq EXCEPT ![p] =
                [Idle EXCEPT !.kind = "register", !.pc = "rg_count",
                             !.who = who, !.post = post,
                             !.name = IF post THEN name ELSE 0,
                             !.role = IF post THEN role ELSE "none",
                             !.rid = nreq + 1]]
  /\ UNCHANGED <<db, lock, work, issued, faults, images, session, now, canDrop>>

\* SELECT COUNT(*) FROM users and the decision; then, for a POST, the
\* validation of the form.  A GET that is allowed shows the form.
RgCount(p) ==
  /\ rq[p].pc = "rg_count"
  /\ LET r == rq[p]
         v == View(DbConn(p))
     IN rq' = [rq EXCEPT ![p] =
                 IF ~MayRegister(v, r.who) THEN Ended(r, "restricted")
                 ELSE IF ~r.post THEN Ended(r, "form")
                 ELSE IF ~ValidForm(r.name, r.role) THEN Ended(r, "rejected")
                 ELSE [r EXCEPT !.pc = "rg_lookup"]]
  /\ UNCHANGED <<db, lock, work, issued, nreq, faults, images, session, now, canDrop>>

\* sqlite3.Error at SELECT COUNT(*): allow_registration stays False.
RgCountFault(p) ==
  /\ rq[p].pc = "rg_count"
  /\ faults < MaxFaults
  /\ faults' = faults + 1
  /\ rq' = [rq EXCEPT ![p] = Ended(rq[p], "restricted")]
  /\ UNCHANGED <<db, lock, work, issued, nreq, images, session, now, canDrop>>

\* SELECT id FROM users WHERE username=?: a name in use is a warning.
RgLookup(p) ==
  /\ rq[p].pc = "rg_lookup"
  /\ rq' = [rq EXCEPT ![p] =
              IF NameTaken(View(DbConn(p)), rq[p].name)
              THEN Ended(rq[p], "exists")
              ELSE [rq[p] EXCEPT !.pc = "rg_insert"]]
  /\ UNCHANGED <<db, lock, work, issued, nreq, faults, images, session, now, canDrop>>

\* INSERT INTO users (username, password, role) VALUES (?, ?, ?): refused by
\* the UNIQUE of the username column when the name was taken since the
\* lookup.
RgInsert(p) ==
  /\ rq[p].pc = "rg_insert"
  /\ WaitReserved(DbConn(p))
  /\ LET c == DbConn(p)
         r == rq[p]
         base == View(c)
     IN IF NameTaken(base, r.name)
        THEN /\ AutoRollback(c)
             /\ rq' = [rq EXCEPT ![p] = Ended(r, "error")]
        ELSE /\ lock' = [lock EXCEPT ![c] = "reserved"]
             /\ work' = [work EXCEPT ![c] =
                           [base EXCEPT !.users = @ \cup {NewUser(base, r)}]]
             /\ rq' = [rq EXCEPT ![p].pc = "rg_commit"]
             /\ db' = db
  /\ UNCHANGED <<issued, nreq, faults, images, session, now, canDrop>>

\* The end of the INSERT statement commits it; db.commit() finds nothing
\* left to commit.
RgCommit(p) ==
  /\ rq[p].pc = "rg_commit"
  /\ CanCommit(DbConn(p))
  /\ Commit(DbConn(p))
  /\ rq' = [rq EXCEPT ![p] = Ended(rq[p], "ok")]
  /\ UNCHANGED <<issued, nreq, faults, images, session, now, canDrop>>

\* except sqlite3.Error: db.rollback()
RgFault(p) ==
  /\ rq[p].pc \in {"rg_lookup", "rg_insert", "rg_commit"}
  /\ faults < MaxFaults
  /\ faults' = faults + 1
  /\ AutoRollback(DbConn(p))
  /\ rq' = [rq EXCEPT ![p] = Ended(rq[p], "error")]
  /\ UNCHANGED <<issued, nreq, images, session, now, canDrop>>

\* ------------------------------------------------------- edit_product
\* if quantity < 0: errors.append("Quantity cannot be negative.")
ValidQuantity(q) == q >= 0

\* POST /edit-product/<id> arrives with its form.
StartEdit(p) ==
  /\ CanStart(p)
  /\ nreq' = nreq + 1
  /\ \E pid \in Products, q \in -1..MaxFormQty :
       rq' = [rq EXCEPT ![p] =
                [Idle EXCEPT !.kind = "edit", !.pc = "ed_update",
                             !.pid = pid, !.q = q, !.rid = nreq + 1]]
  /\ UNCHANGED <<db, lock, work, issued, faults, images, session, now, canDrop>>

\* edit_product without the quantity check of its form, on a products table
\* whose quantity column carries no CHECK (CREATE TABLE IF NOT EXISTS leaves a
\* table of an older schema as it is).
EdUpdateUnchecked(p) ==
  /\ rq[p].pc = "ed_update"
  /\ WaitReserved(DbConn(p))
  /\ LET c == DbConn(p)
         r == rq[p]
         base == View(c)
     IN /\ lock' = [lock EXCEPT ![c] = "reserved"]
        /\ work' = [work EXCEPT ![c] =
                      [base EXCEPT !.qty[r.pid] =
                         IF r.pid \in base.prod THEN r.q ELSE @]]
        /\ rq' = [rq EXCEPT ![p].pc = "ed_commit"]
        /\ db' = db
  /\ UNCHANGED <<issued, nreq, faults, images, session, now, canDrop>>

\* The form is validated; then UPDATE products SET ..., quantity=? WHERE id=?:
\* the statement takes the write lock and changes the row in the private
\* image.
EdUpdate(p) ==
  /\ rq[p].pc = "ed_update"
  /\ LET c == DbConn(p)
         r == rq[p]
         base == View(c)
     IN IF ~ValidQuantity(r.q)
        THEN /\ rq' = [rq EXCEPT ![p] = Ended(r, "rejected")]
             /\ UNCHANGED <<db, lock, work>>
        ELSE /\ WaitReserved(c)
             /\ IF r.pid \in base.prod /\ ~CheckQuantity(r.q)
                THEN /\ AutoRollback(c)
                     /\ rq' = [rq EXCEPT ![p] = Ended(r, "error")]
                ELSE /\ lock' = [lock EXCEPT ![c] = "reserved"]
                     /\ work' = [work EXCEPT ![c] =
                                   [base EXCEPT !.qty[r.pid] =
                                      IF r.pid \in base.prod THEN r.q ELSE @]]
                     /\ rq' = [rq EXCEPT ![p].pc = "ed_commit"]
                     /\ db' = db
  /\ UNCHANGED <<issued, nreq, faults, images, session, now, canDrop>>

\* The end of the UPDATE statement commits it.
EdCommit(p) ==
  /\ rq[p].pc = "ed_commit"
  /\ CanCommit(DbConn(p))
  /\ Commit(DbConn(p))
  /\ rq' = [rq EXCEPT ![p] = Ended(rq[p], "ok")]
  /\ UNCHANGED <<issued, nreq, faults, images, session, now, canDrop>>

EdFault(p) ==
  /\ rq[p].pc \in {"ed_update", "ed_commit"}
  /\ faults < MaxFaults
  /\ faults' = faults + 1
  /\ AutoRollback(DbConn(p))
  /\ rq' = [rq EXCEPT ![p] = Ended(rq[p], "error")]
  /\ UNCHANGED <<issued, nreq, images, session, now, canDrop>>

\* ----------------------------------------------------- delete_product
\* A history check that counts the sales only.
HasSales(v, pid) == \E s \in v.sales : s.pid = pid

\* sales_count > 0 or returns_count > 0
HasHistory(v, pid) ==
  \/ \E s \in v.sales : s.pid = pid
  \/ \E t \in v.returns : t.pid = pid

\* POST /delete-product/<id>: SELECT the product, SELECT COUNT(*) FROM sales,
\* SELECT COUNT(*) FROM returns, each a statement of its own.
StartDelete(p) ==
  /\ CanStart(p)
  /\ nreq' = nreq + 1
  /\ \E pid \in Products :
       rq' = [rq EXCEPT ![p] =
                IF pid \notin db.prod
                THEN [Idle EXCEPT !.kind = "delete", !.out = "rejected"]
                ELSE IF HasHistory(db, pid)
                THEN [Idle EXCEPT !.kind = "delete", !.out = "refused",
                                  !.pid = pid]
                ELSE [Idle EXCEPT !.kind = "delete", !.pc = "dl_delete",
                                  !.pid = pid, !.code = db.code[pid],
                                  !.rid = nreq + 1]]
  /\ UNCHANGED <<db, lock, work, issued, faults, images, session, now, canDrop>>

\* DELETE FROM products WHERE id=?
DlDelete(p) ==
  /\ rq[p].pc = "dl_delete"
  /\ WaitReserved(DbConn(p))
  /\ LET c == DbConn(p)
         r == rq[p]
         base == View(c)
     IN IF ForeignKeys /\ HasHistory(base, r.pid)
        THEN /\ AutoRollback(c)
             /\ rq' = [rq EXCEPT ![p] = Ended(r, "error")]
        ELSE /\ lock' = [lock EXCEPT ![c] = "reserved"]
             /\ work' = [work EXCEPT ![c] =
                           [base EXCEPT !.prod = @ \ {r.pid},
                                        !.qty[r.pid] = 0,
                                        !.code[r.pid] = 0]]
             /\ rq' = [rq EXCEPT ![p].pc = "dl_commit"]
             /\ db' = db
  /\ UNCHANGED <<issued, nreq, faults, images, session, now, canDrop>>

\* The end of the DELETE statement commits it; then the image file of the
\* barcode that the first SELECT read is removed.
DlCommit(p) ==
  /\ rq[p].pc = "dl_commit"
  /\ CanCommit(DbConn(p))
  /\ Commit(DbConn(p))
  /\ images' = images \ {rq[p].code}
  /\ rq' = [rq EXCEPT ![p] = Ended(rq[p], "ok")]
  /\ UNCHANGED <<issued, nreq, faults, session, now, canDrop>>

DlFault(p) ==
  /\ rq[p].pc \in {"dl_delete", "dl_commit"}
  /\ faults < MaxFaults
  /\ faults' = faults + 1
  /\ AutoRollback(DbConn(p))
  /\ rq' = [rq EXCEPT ![p] = Ended(rq[p], "error")]
  /\ UNCHANGED <<issued, nreq, images, session, now, canDrop>>

\* -------------------------------------------------------- add_product
\* Product ids are AUTOINCREMENT: the rows the requests in flight may still
\* insert must fit the ids of the model.
Adding == {o \in Procs : rq[o].pc \in {"ad_image", "ad_insert", "ad_commit"}}

\* The barcodes of the product rows.
Barcodes(v) == {v.code[x] : x \in v.prod}

\* models.py: next_code = "100000000000", the first barcode of the sequence
DefaultCode == 1

RECURSIVE MaxOf(_)
MaxOf(S) ==
  LET x == CHOOSE y \in S : TRUE
  IN IF S = {x} THEN x
     ELSE IF x > MaxOf(S \ {x}) THEN x ELSE MaxOf(S \ {x})

\* get_next_barcode, on a connection of its own: the highest barcode plus
\* one, the default when there is none.
NextBarcode(v) ==
  IF Barcodes(v) = {} THEN DefaultCode ELSE MaxOf(Barcodes(v)) + 1

\* The barcode field of the form; 0 stands for the empty field, for which the
\* next barcode of the sequence is taken.
FinalCode(v, code) == IF code = 0 THEN NextBarcode(v) ELSE code

\* POST /add-product: the form is validated, and the barcode (typed, or the
\* next of the sequence) is looked up with a SELECT of its own:
\* a barcode in use is an error of the form.
\* A request of the session `who` (see Sessions): one without 'user' in its
\* session is sent to the login page before anything is read or written.
StartAddAs(p, who) ==
  /\ CanStart(p)
  /\ db.lastId + Cardinality(Adding) < NumProducts
  /\ nreq' = nreq + 1
  /\ \E q \in -1..MaxFormQty, code \in 0..NumProducts :
       rq' = [rq EXCEPT ![p] =
                IF ~LoggedIn(who)
                THEN [Idle EXCEPT !.kind = "add", !.who = who, !.out = "login"]
                ELSE IF ~ValidQuantity(q) \/ FinalCode(db, code) \in Barcodes(db)
                THEN [Idle EXCEPT !.kind = "add", !.who = who,
                                  !.out = "rejected"]
                ELSE [Idle EXCEPT !.kind = "add", !.pc = "ad_image",
                                  !.who = who,
                                  !.q = q, !.code = FinalCode(db, code),
                                  !.rid = nreq + 1]]
  /\ UNCHANGED <<db, lock, work, issued, faults, images, session, now, canDrop>>

\* POST /add-product from any session.
StartAddAny(p) == \E who \in Sessions(db) : StartAddAs(p, who)

\* The request of the admin who registered first.
StartAdd(p) == StartAddAs(p, FirstUser.role)

\* generate_barcode(final_code, ...): the image file of the barcode is
\* written, over the file of that name if there is one.
AdImage(p) ==
  /\ rq[p].pc = "ad_image"
  /\ images' = images \cup {rq[p].code}
  /\ rq' = [rq EXCEPT ![p].pc = "ad_insert"]
  /\ UNCHANGED <<db, lock, work, issued, nreq, faults, session, now, canDrop>>

\* An error path that leaves the generated file where it is.
ImageKept(imgs, code) == imgs

\* if generated_barcode_file_full_path and os.path.exists(...): os.remove(...)
ImageRemoved(imgs, code) == imgs \ {code}

\* INSERT INTO products (..., quantity, ..., barcode) VALUES (...): refused
\* by CHECK(quantity >= 0) and by the UNIQUE of the barcode column; the
\* except branch removes the image file.
AdInsert(p) ==
  /\ rq[p].pc = "ad_insert"
  /\ WaitReserved(DbConn(p))
  /\ LET c == DbConn(p)
         r == rq[p]
         base == View(c)
         id == base.lastId + 1
     IN IF ~CheckQuantity(r.q) \/ r.code \in Barcodes(base)
        THEN /\ AutoRollback(c)
             /\ images' = ImageRemoved(images, r.code)
             /\ rq' = [rq EXCEPT ![p] = Ended(r, "error")]
        ELSE /\ lock' = [lock EXCEPT ![c] = "reserved"]
             /\ work' = [work EXCEPT ![c] =
                           [base EXCEPT !.prod = @ \cup {id},
                                        !.qty[id] = r.q,
                                        !.code[id] = r.code,
                                        !.lastId = id]]
             /\ rq' = [rq EXCEPT ![p].pc = "ad_commit", ![p].pid = id]
             /\ db' = db
             /\ images' = images
  /\ UNCHANGED <<issued, nreq, faults, session, now, canDrop>>

\* The end of the INSERT statement commits it.
AdCommit(p) ==
  /\ rq[p].pc = "ad_commit"
  /\ CanCommit(DbConn(p))
  /\ Commit(DbConn(p))
  /\ rq' = [rq EXCEPT ![p] = Ended(rq[p], "ok")]
  /\ UNCHANGED <<issued, nreq, faults, images, session, now, canDrop>>

\* except sqlite3.Error: db.rollback(), the image file is removed
AdFault(p) ==
  /\ rq[p].pc \in {"ad_insert", "ad_commit"}
  /\ faults < MaxFaults
  /\ faults' = faults + 1
  /\ AutoRollback(DbConn(p))
  /\ images' = ImageRemoved(images, rq[p].code)
  /\ rq' = [rq EXCEPT ![p] = Ended(rq[p], "error")]
  /\ UNCHANGED <<issued, nreq, session, now, canDrop>>

\* ---------------------------------------------------------- analytics
\* Dates are day numbers: day 1 is Sunday 2023-12-31, day 2 is Monday
\* 2024-01-01, and so on through January 2024.
Days == 1..MaxDay

\* date.isoweekday(): 1 for Monday .. 7 for Sunday
IsoWeekday(n) == ((n + 7005) % 7) + 1

\* strftime('%Y', d) and strftime('%m', d) as one number, 12 * year + month - 1
MonthIdx(n) == IF n <= 1 THEN 12 * 2023 + 11 ELSE 12 * 2024

\* round(x, 2) on thousandths: to the nearest hundredth, a tie to the even
\* one.
Round2(x) ==
  LET q == x \div 10
      r == x % 10
  IN IF r < 5 THEN 10 * q
     ELSE IF r > 5 THEN 10 * (q + 1)
     ELSE IF q % 2 = 0 THEN 10 * q ELSE 10 * (q + 1)

\* SUM(quantity * sale_price), SUM(quantity * return_price); "or 0.0" for
\* the NULL of an empty selection.
RECURSIVE Amount(_)
Amount(rows) ==
  IF rows = {} THEN 0
  ELSE LET x == CHOOSE y \in rows : TRUE
       IN x.qty * x.price + Amount(rows \ {x})

\* SELECT DISTINCT s.bill_identifier, s.discount_applied_to_bill ... WHERE
\* s.discount_applied_to_bill > 0
UniqueDiscounts(rows) == {<<s.bill, s.disc>> : s \in {x \in rows : x.disc > 0}}

\* SELECT SUM(unique_discounts.discount_amount)
RECURSIVE DiscountAmount(_)
DiscountAmount(pairs) ==
  IF pairs = {} THEN 0
  ELSE LET x == CHOOSE y \in pairs : TRUE
       IN x[2] + DiscountAmount(pairs \ {x})

\* One row of a get_sales_analytics result: the three sums, and their
\* difference, each rounded for the report.
RoundedRow(key, sold, returned) ==
  LET gross == Amount(sold)
      disc == DiscountAmount(UniqueDiscounts(sold))
      ret == Amount(returned)
  IN [key |-> key, gross |-> Round2(gross), disc |-> Round2(disc),
      ret |-> Round2(ret), net |-> Round2(gross - disc - ret)]

\* WHERE DATE(sale_date) BETWEEN ? AND ?
Between(rows, from, to) == {x \in rows : from <= x.day /\ x.day <= to}

\* period == 'daily': the last 7 days, DATE(sale_date) = ?
Daily(v, today) ==
  [ok |-> TRUE,
   rows |-> [i \in 1..DailyPeriods |->
               LET d == today - (i - 1)
               IN RoundedRow(d, {x \in v.sales : x.day = d},
                                {x \in v.returns : x.day = d})]]

\* period == 'weekly': the last 4 weeks, Monday to Sunday
Weekly(v, today) ==
  [ok |-> TRUE,
   rows |-> [i \in 1..WeeklyPeriods |->
               LET ref == today - 7 * (i - 1)
                   start == ref - (IsoWeekday(ref) - 1)
                   end == start + 6
               IN RoundedRow(start, Between(v.sales, start, end),
                                    Between(v.returns, start, end))]]

\* period == 'monthly': the last 12 months, by year and month of the date
Monthly(v, today) ==
  [ok |-> TRUE,
   rows |-> [i \in 1..MonthlyPeriods |->
               LET m == MonthIdx(today) - (i - 1)
               IN RoundedRow(m, {x \in v.sales : MonthIdx(x.day) = m},
                                {x \in v.returns : MonthIdx(x.day) = m})]]

\* period == 'yearly': the discount query selects strftime('%Y', s.sale_date)
\* from the subquery unique_discounts, in which no s is in scope; SQLite
\* refuses the statement ("no such column: s.sale_date"), whatever the
\* tables hold, and the function returns [] from its except branch.
Yearly(v) == [ok |-> FALSE, rows |-> <<>>]

\* get_custom_range_analytics: the sums over DATE(...) BETWEEN from AND to,
\* and their difference, not rounded.
CustomRange(v, from, to) ==
  LET gross == Amount(Between(v.sales, from, to))
      disc == DiscountAmount(UniqueDiscounts(Between(v.sales, from, to)))
      ret == Amount(Between(v.returns, from, to))
  IN [ok |-> TRUE,
      rows |-> <<[key |-> from, gross |-> gross, disc |-> disc, ret |-> ret,
                  net |-> gross - disc - ret]>>]

Periods == {"daily", "weekly", "monthly", "yearly", "custom"}

\* The result of one analytics call on the tables v.
Report(v, per, a, b) ==
  CASE per = "daily" -> Daily(v, a)
    [] per = "weekly" -> Weekly(v, a)
    [] per = "monthly" -> Monthly(v, a)
    [] per = "yearly" -> Yearly(v)
    [] per = "custom" -> CustomRange(v, a, b)

\* A call that leaves a read transaction open on the connection.
QueryKeepsLock(c) == "shared"

\* The lock of the connection after the queries of a call: each SELECT is a
\* statement of its own on the autocommit connection, its read lock ends
\* with it; the calls execute nothing else, and their except branches only
\* return.
AfterQueries(c) == lock[c]

\* GET /dashboard: one call of get_sales_analytics, or of
\* get_custom_range_analytics with the two dates of the query string (made
\* when the first is not after the second); today is
\* datetime.now(UTC).date().
StartAnalytics(p) ==
  /\ CanStart(p)
  /\ nreq' = nreq + 1
  /\ \E per \in Periods, a \in Days, b \in Days :
       /\ per \in {"daily", "weekly", "monthly"} => b = a
       /\ per = "yearly" => a = 1 /\ b = 1
       /\ per = "custom" => a <= b
       /\ rq' = [rq EXCEPT ![p] =
                   [Idle EXCEPT !.kind = "analytics", !.pc = "an_done",
                                !.per = per, !.a = a, !.b = b,
                                !.rep = Report(View(DbConn(p)), per, a, b),
                                !.rid = nreq + 1]]
  /\ lock' = [lock EXCEPT ![DbConn(p)] = AfterQueries(DbConn(p))]
  /\ UNCHANGED <<db, work, issued, faults, images, session, now, canDrop>>

\* The page is rendered from the result.
AnEnd(p) ==
  /\ rq[p].pc = "an_done"
  /\ rq' = [rq EXCEPT ![p] =
              Ended(rq[p], IF rq[p].rep.ok THEN "ok" ELSE "empty")]
  /\ UNCHANGED <<db, lock, work, issued, nreq, faults, images, session, now, canDrop>>

\* The lines of one bill as billing inserts them: one identifier and one
\* sale date for the bill, line i sells one piece of product i, the bill
\* discount is on the first line.
BillLines(rid, bill, day, n, d) ==
  {[rid |-> rid, line |-> i, bill |-> bill, pid |-> i, qty |-> 1,
    price |-> Price(i), disc |-> LineDiscount(i, d), day |-> day] :
     i \in 1..n}

Discounts == {DiscountUnit * k : k \in 0..MaxDiscountSteps}

\* What the sales table of a store in use can hold: up to MaxBills bills;
\* two bills can carry one identifier (get_next_bill_number returns its
\* fallback number after an error).
BillTables ==
  {UNION {BillLines(i, f[i].bill, f[i].day, f[i].n, f[i].d) : i \in DOMAIN f} :
     f \in UNION {[1..k -> [bill : 1..MaxBills, day : Days, n : 1..MaxLines,
                            d : Discounts]] : k \in 0..MaxBills}}

\* What the returns table can hold: no return, or one return of one piece of
\* product 1.
ReturnTables ==
  {{}} \cup {{[rid |-> MaxBills + 1, pid |-> 1, qty |-> 1,
               price |-> PriceUnit * k, obill |-> 0, day |-> d]} :
              k \in 1..MaxPrice, d \in Days}

\* The store with sales and returns on its books.
InitAnalytics ==
  /\ \E S \in BillTables, R \in ReturnTables :
       db = [prod |-> 1..(NumProducts - 1),
             qty |-> [x \in Products |-> IF x < NumProducts THEN InitStock ELSE 0],
             code |-> [x \in Products |-> IF x < NumProducts THEN x ELSE 0],
             lastId |-> NumProducts - 1,
             hasSeq |-> TRUE, lastBillNo |-> MaxBills,
             sales |-> S, returns |-> R, users |-> {FirstUser},
             discounts |-> NoDiscounts]
  /\ lock = [c \in Conns |-> "none"]
  /\ work = [c \in Conns |-> NoTxn]
  /\ rq = [p \in Procs |-> Idle]
  /\ issued = <<>>
  /\ nreq = 0
  /\ faults = 0
  /\ images = 1..(NumProducts - 1)
  /\ session = NoSession
  /\ now = 0
  /\ canDrop = TRUE

\* The percentages of the stored discounts of the model.
Percents == {PercentStep * k : k \in 0..MaxPercentSteps}

\* A discounts table in the new columns with one stored percentage discount,
\* as a migration from the old 'percent' column leaves it.
StoredDiscounts(p) ==
  [cols |-> NewColumns,
   rows |-> {[id |-> 1, percent |-> {}, dtype |-> {"percentage"},
              value |-> {p}]}]

\* The store with or without a stored discount, and a browser that has just
\* logged in.
InitSession ==
  /\ \E D \in {NoDiscounts} \cup {StoredDiscounts(p) : p \in Percents} :
       db = [prod |-> 1..(NumProducts - 1),
             qty |-> [x \in Products |-> IF x < NumProducts THEN InitStock ELSE 0],
             code |-> [x \in Products |-> IF x < NumProducts THEN x ELSE 0],
             lastId |-> NumProducts - 1,
             hasSeq |-> TRUE, lastBillNo |-> 0,
             sales |-> {}, returns |-> {}, users |-> {FirstUser},
             discounts |-> D]
  /\ lock = [c \in Conns |-> "none"]
  /\ work = [c \in Conns |-> NoTxn]
  /\ rq = [p \in Procs |-> Idle]
  /\ issued = <<>>
  /\ nreq = 0
  /\ faults = 0
  /\ images = 1..(NumProducts - 1)
  /\ session = NoSession
  /\ now = 0
  /\ canDrop = TRUE

\* The store with room for two more products: the last two product ids are
\* not in use yet.
InitAdd ==
  /\ db = [prod |-> 1..(NumProducts - 2),
           qty |-> [x \in Products |->
                     IF x < NumProducts - 1 THEN InitStock ELSE 0],
           code |-> [x \in Products |-> IF x < NumProducts - 1 THEN x ELSE 0],
           lastId |-> NumProducts - 2,
           hasSeq |-> TRUE, lastBillNo |-> 0,
           sales |-> {}, returns |-> {}, users |-> {FirstUser},
           discounts |-> NoDiscounts]
  /\ lock = [c \in Conns |-> "none"]
  /\ work = [c \in Conns |-> NoTxn]
  /\ rq = [p \in Procs |-> Idle]
  /\ issued = <<>>
  /\ nreq = 0
  /\ faults = 0
  /\ images = 1..(NumProducts - 2)
  /\ session = NoSession
  /\ now = 0
  /\ canDrop = TRUE

\* The store whose bill_sequence table has lost its row.
InitNoSeq ==
  /\ db = [prod |-> 1..(NumProducts - 1),
           qty |-> [x \in Products |-> IF x < NumProducts THEN InitStock ELSE 0],
           code |-> [x \in Products |-> IF x < NumProducts THEN x ELSE 0],
           lastId |-> NumProducts - 1,
           hasSeq |-> FALSE, lastBillNo |-> 0,
           sales |-> {}, returns |-> {}, users |-> {FirstUser},
           discounts |-> NoDiscounts]
  /\ lock = [c \in Conns |-> "none"]
  /\ work = [c \in Conns |-> NoTxn]
  /\ rq = [p \in Procs |-> Idle]
  /\ issued = <<>>
  /\ nreq = 0
  /\ faults = 0
  /\ images = 1..(NumProducts - 1)
  /\ session = NoSession
  /\ now = 0
  /\ canDrop = TRUE

\* --------------------------------------------------------- specification
\* The steps of a checkout after its arrival.
CheckoutSteps(p) ==
  \/ CoValidate(p)
  \/ GnbBegin(p)
  \/ GnbCommit(p)
  \/ GnbFailEarly(p)
  \/ GnbFailLate(p)
  \/ CoSelect(p)
  \/ CoWrite(p)
  \/ CoCommit(p)
  \/ CoPrint(p)
  \/ CoFault(p)

Checkout(p) == StartCheckout(p) \/ CheckoutSteps(p)

Return(p) ==
  StartReturn(p) \/ RtValidate(p) \/ RtWrite(p) \/ RtCommit(p) \/ RtFault(p)

Edit(p) == StartEdit(p) \/ EdUpdate(p) \/ EdCommit(p) \/ EdFault(p)

Delete(p) == StartDelete(p) \/ DlDelete(p) \/ DlCommit(p) \/ DlFault(p)

\* The steps of an add_product request after its arrival.
AddSteps(p) == AdImage(p) \/ AdInsert(p) \/ AdCommit(p) \/ AdFault(p)

Add(p) == StartAdd(p) \/ AddSteps(p)

Next == \E p \in Procs : Checkout(p) \/ Return(p) \/ Edit(p) \/ Delete(p) \/ Add(p)

Spec == Init /\ [][Next]_vars

\* Checkouts alone: no return, edit, delete or add runs beside them.
NextCheckout == \E p \in Procs : Checkout(p)

SpecCheckout == Init /\ [][NextCheckout]_vars

\* The clock of the machine, which datetime.now() reads: it moves on between
\* the steps of the requests.
Tick ==
  /\ now < MaxTime
  /\ now' = now + 1
  /\ UNCHANGED <<db, lock, work, rq, issued, nreq, faults, images, session,
                 canDrop>>

\* Checkouts while the clock runs.
NextTimed == Tick \/ \E p \in Procs : Checkout(p)

SpecTimed == Init /\ [][NextTimed]_vars

\* Checkouts and returns: no edit, delete or add runs beside them.
NextSales == \E p \in Procs : Checkout(p) \/ Return(p)

SpecSales == Init /\ [][NextSales]_vars

Analytics(p) == StartAnalytics(p) \/ AnEnd(p)

\* The analytics calls over the books of a store in use.
NextAnalytics == \E p \in Procs : Analytics(p)

SpecAnalytics == InitAnalytics /\ [][NextAnalytics]_vars

\* The requests of the followed browser to its cart and its discount.
CartRequest ==
  \/ \E code \in 0..NumProducts : CartAddScan(code)
  \/ \E pid \in Products : CartAddManual(pid)
  \/ \E pid \in Products : CartIncrease(pid)
  \/ \E pid \in Products : CartDecrease(pid)
  \/ \E pid \in Products : CartRemove(pid)
  \/ \E did \in DiscountIds : ApplyDiscount(did)
  \/ ClearDiscount

\* One browser at its cart and its checkouts.
NextSession ==
  \/ CartRequest
  \/ \E p \in Procs : StartOwnCheckout(p) \/ CheckoutSteps(p)

SpecSession == InitSession /\ [][NextSession]_vars

\* The add_product requests alone.
NextAdd == \E p \in Procs : Add(p)

SpecAdd == InitAdd /\ [][NextAdd]_vars

\* A new installation (init_db has run, nobody has registered, nothing is
\* on sale) or the store with its admin.
InitAuth ==
  /\ \E fresh \in BOOLEAN :
       db = [prod |-> IF fresh THEN {} ELSE 1..(NumProducts - 2),
             qty |-> [x \in Products |->
                       IF ~fresh /\ x < NumProducts - 1 THEN InitStock ELSE 0],
             code |-> [x \in Products |->
                        IF ~fresh /\ x < NumProducts - 1 THEN x ELSE 0],
             lastId |-> IF fresh THEN 0 ELSE NumProducts - 2,
             hasSeq |-> TRUE, lastBillNo |-> 0,
             sales |-> {}, returns |-> {},
             users |-> IF fresh THEN {} ELSE {FirstUser},
             discounts |-> NoDiscounts]
  /\ lock = [c \in Conns |-> "none"]
  /\ work = [c \in Conns |-> NoTxn]
  /\ rq = [p \in Procs |-> Idle]
  /\ issued = <<>>
  /\ nreq = 0
  /\ faults = 0
  /\ images = {db.code[x] : x \in db.prod}
  /\ session = NoSession
  /\ now = 0
  /\ canDrop = TRUE

\* Registrations and add_product requests from any session.
NextAuth ==
  \E p \in Procs :
    \/ StartRegister(p) \/ RgCount(p) \/ RgCountFault(p) \/ RgLookup(p)
    \/ RgInsert(p) \/ RgCommit(p) \/ RgFault(p)
    \/ StartAddAny(p)
    \/ AddSteps(p)

SpecAuth == InitAuth /\ [][NextAuth]_vars

\* The discounts tables a run can find.  Column states: the old table, the
\* old table with one or both of the new columns (a run that stopped half
\* way), the new table.  Rows: the ids 1..n; percent and value hold NULL or a
\* number, discount_type NULL or one of the two types; a column that is not
\* there holds nothing; the columns of init_db are NOT NULL.
Tables ==
  LET values == {{}} \cup {{x} : x \in Percents}
      types == {{}, {"percentage"}, {"fixed"}}
      states == {{"percent"} \cup N : N \in SUBSET NewColumns} \cup {NewColumns}
      rowsOf(cols) ==
        {r \in [percent : values, dtype : types, value : values] :
           /\ "percent" \notin cols => r.percent = {}
           /\ "discount_type" \notin cols => r.dtype = {}
           /\ "value" \notin cols => r.value = {}
           /\ "percent" \notin cols => r.dtype # {} /\ r.value # {}}
      withId(i, r) ==
        [id |-> i, percent |-> r.percent, dtype |-> r.dtype, value |-> r.value]
      tablesOf(cols) ==
        UNION {{[cols |-> cols, rows |-> {withId(i, f[i]) : i \in 1..n}] :
                  f \in [1..n -> rowsOf(cols)]} : n \in 0..MaxRows}
  IN UNION {tablesOf(cols) : cols \in states}

\* The store with a discounts table in any of its column states, and the
\* SQLite library the script is run with.
InitMigrate ==
  /\ \E D \in Tables :
       db = [prod |-> 1..(NumProducts - 1),
             qty |-> [x \in Products |->
                       IF x < NumProducts THEN InitStock ELSE 0],
             code |-> [x \in Products |-> IF x < NumProducts THEN x ELSE 0],
             lastId |-> NumProducts - 1,
             hasSeq |-> TRUE, lastBillNo |-> 0,
             sales |-> {}, returns |-> {}, users |-> {FirstUser},
             discounts |-> D]
  /\ lock = [c \in Conns |-> "none"]
  /\ work = [c \in Conns |-> NoTxn]
  /\ rq = [p \in Procs |-> Idle]
  /\ issued = <<>>
  /\ nreq = 0
  /\ faults = 0
  /\ images = 1..(NumProducts - 1)
  /\ session = NoSession
  /\ now = 0
  /\ canDrop \in BOOLEAN

\* Runs of the migration script.
NextMigrate ==
  \E p \in Procs :
    \/ StartMigrate(p) \/ MgCheck(p) \/ MgAddType(p) \/ MgAddValue(p)
    \/ MgPopulate(p) \/ MgDefaults(p) \/ MgDrop(p) \/ MgCommit(p)
    \/ MgFault(p)

SpecMigrate == InitMigrate /\ [][NextMigrate]_vars

\* Checkouts on the store without its counter row.
SpecNoSeq == InitNoSeq /\ [][NextCheckout]_vars

\* ================================================================ claims
InCheckout(p) == rq[p].pc \in {"co_select", "co_write", "co_commit"}

\* C1: the bill numbers returned by counter transactions that completed
\* without a storage error are pairwise distinct, whatever the interleaving
\* of the callers and whatever the order in which their checkouts commit.
C1_DistinctBillNumbers ==
  /\ \A i, j \in 1..Len(issued) : i # j => issued[i] # issued[j]
  /\ \A p, o \in Procs :
       (p # o /\ InCheckout(p) /\ InCheckout(o) /\ rq[p].billOk /\ rq[o].billOk)
         => rq[p].bill # rq[o].bill

\* Two checkouts hold their numbers at once, and the one that got the later
\* number has committed its sale before the other one.
C1_Witness ==
  \E p \in Procs :
    /\ InCheckout(p) /\ rq[p].billOk
    /\ \E s \in db.sales : s.billOk /\ s.bill > rq[p].bill

\* C5: on a freshly initialised database the first successful call returns 1
\* and each later successful call returns the previous value plus 1, in the
\* order in which the counter transactions commit.
C5_StrictlyIncreasingFromOne ==
  \A i \in 1..Len(issued) : issued[i] = i

\* Two callers were in flight together and both were served.
C5_Witness ==
  /\ Len(issued) = MaxReq
  /\ \A p \in Procs : InCheckout(p) /\ rq[p].billOk

\* C6: no checkout records sale lines under a bill number that came from a
\* failed call of get_next_bill_number, and so no two checkouts share a bill
\* identifier.
C6_NoBillFromFailedCall ==
  /\ \A s \in db.sales : s.billOk
  /\ \A s, t \in db.sales : s.bill = t.bill => s.rid = t.rid

\* A call of get_next_bill_number ends in its error path.
GnbFails(p) ==
  /\ rq[p].pc \in {"gnb_begin", "gnb_commit"}
  /\ rq'[p].pc = "co_select"
  /\ ~rq'[p].billOk

\* C7: a call of get_next_bill_number that hits a storage error leaves the
\* bill_sequence row as it was: neither the statements before the error nor
\* the error path change the committed counter.
C7_FailedCallLeavesCounter ==
  [][\A p \in Procs :
       (GnbFails(p) \/ (rq[p].pc = "gnb_begin" /\ rq'[p].pc = "gnb_commit"))
         => /\ db'.hasSeq = db.hasSeq
            /\ db'.lastBillNo = db.lastBillNo
            /\ (GnbFails(p) => lock'[SeqConn(p)] = "none")]_vars

\* A call failed after it had computed and written number 2 in its
\* transaction; the counter still holds 1.
C7_Witness ==
  \E p \in Procs :
    /\ rq[p].pc = "co_select" /\ ~rq[p].billOk
    /\ rq[p].bill = 2 /\ db.lastBillNo = 1

RECURSIVE SumQty(_)
SumQty(S) ==
  IF S = {} THEN 0
  ELSE LET x == CHOOSE y \in S : TRUE IN x.qty + SumQty(S \ {x})

\* The pieces of product pid on committed sale lines.
Sold(pid) == SumQty({s \in db.sales : s.pid = pid})

\* C2: whatever the interleaving of the checkouts, the committed sale lines of
\* a product never add up to more than the stock that was available, and the
\* stock is what the committed checkouts left: a checkout that lost changed
\* nothing.
C2_NoOversell ==
  \A pid \in db.prod :
    /\ Sold(pid) <= InitStock
    /\ db.qty[pid] = InitStock - Sold(pid)

\* Two checkouts asked for more of one product than there was: one committed,
\* the other one failed, and the stock is what the winner left.
C2_Witness ==
  \E s \in db.sales, p \in Procs :
    /\ rq[p].kind = "checkout" /\ rq[p].pc = "idle"
    /\ rq[p].out \in {"insufficient", "error"}
    /\ faults = 0
    /\ rq[p].pid = s.pid
    /\ rq[p].q <= InitStock /\ rq[p].q + s.qty > InitStock
    /\ db.qty[s.pid] = InitStock - s.qty

CheckoutAborts(p) ==
  /\ rq[p].pc = "co_select"
  /\ rq'[p].pc = "idle"
  /\ rq'[p].out = "insufficient"

CheckoutCommits(p) ==
  /\ rq[p].pc = "co_commit"
  /\ rq'[p].pc = "co_print"
  /\ rq'[p].out = "ok"

\* C3: a checkout with a line whose quantity exceeds the stock, or whose
\* product is gone, commits nothing: the abort leaves every table as it was,
\* also after earlier lines were processed, it names the first such line in
\* cart order, and no checkout with such a line commits.
C3_AllOrNothing ==
  [][\A p \in Procs :
       /\ CheckoutAborts(p) =>
            /\ db' = db
            /\ \A s \in db'.sales : s.rid # rq[p].rid
            /\ lock'[DbConn(p)] = "none"
            /\ \E i \in 1..Len(rq[p].cart) :
                 /\ i = rq'[p].idx
                 /\ rq'[p].pid = rq[p].cart[i].id
                 /\ Insufficient(db, rq[p].cart[i])
                 /\ \A j \in 1..(i - 1) : ~Insufficient(db, rq[p].cart[j])
       /\ CheckoutCommits(p) =>
            \A i \in 1..Len(rq[p].cart) : ~Insufficient(db, rq[p].cart[i])]_vars

\* A checkout was aborted at its second line, after its first line had been
\* written; no sale line is committed.
C3_Witness ==
  \E p \in Procs :
    /\ rq[p].kind = "checkout" /\ rq[p].pc = "idle"
    /\ rq[p].out = "insufficient" /\ rq[p].idx = 2
    /\ \A s \in db.sales : s.rid # rq[p].rid

\* The quantity a cart asks of product pid.
LineQty(cart, pid) ==
  IF \E i \in 1..Len(cart) : cart[i].id = pid
  THEN cart[CHOOSE i \in 1..Len(cart) : cart[i].id = pid].qty
  ELSE 0

\* What the commit of a checkout adds to the sales table and takes from the
\* stock.
CheckoutWrites(p) ==
  LET r == rq[p]
      new == db'.sales \ db.sales
  IN /\ db.sales \subseteq db'.sales
     /\ Cardinality(new) = Len(r.cart)
     /\ \A s \in new : s.bill = r.bill /\ s.rid = r.rid
     /\ \A pid \in Products : db'.qty[pid] = db.qty[pid] - LineQty(r.cart, pid)
     /\ db'.prod = db.prod /\ db'.returns = db.returns

\* C4: a successful checkout of N lines inserts N sale lines under the one
\* bill identifier issued to it, lowers the stock of each product sold by the
\* quantity sold, leaves the other products alone and has advanced the bill
\* counter by exactly one.
C4_SuccessfulCheckout ==
  [][\A p \in Procs :
       CheckoutCommits(p) =>
         /\ CheckoutWrites(p)
         /\ rq[p].billOk
         /\ rq[p].adv = 1]_vars

\* The sale lines and the stock alone.
C4_LinesAndStock ==
  [][\A p \in Procs : CheckoutCommits(p) => CheckoutWrites(p)]_vars

\* C8: every product's quantity on hand is >= 0 in every reachable state.
C8_QuantityNonNegative ==
  \A pid \in db.prod : db.qty[pid] >= 0

\* A product is sold out and a checkout that asked for it was refused.
C8_Witness ==
  \E pid \in db.prod, p \in Procs :
    /\ db.qty[pid] = 0
    /\ rq[p].kind = "checkout" /\ rq[p].out = "insufficient"
    /\ rq[p].pid = pid

\* C9: the stock a checkout compared with the quantity of a line is the stock
\* its decrement is applied to, and the quantity is not above it: no write of
\* another transaction comes between the check and the decrement.
C9_CheckIsDecrementBase ==
  /\ \A s \in db.sales : s.seen = s.base /\ s.qty <= s.base
  /\ \A p \in Procs :
       rq[p].pc = "co_write" =>
         View(DbConn(p)).qty[rq[p].cart[rq[p].idx].id] = rq[p].seen

\* A sale line is committed while an edit or a return of the same product,
\* requested before the checkout, has not yet written.
C9_Witness ==
  \E s \in db.sales, o \in Procs :
    /\ rq[o].pc \in {"ed_update", "rt_write"}
    /\ ValidQuantity(rq[o].q)
    /\ rq[o].pid = s.pid
    /\ rq[o].rid < s.rid

ReturnCommits(p) ==
  /\ rq[p].pc = "rt_commit"
  /\ rq'[p].pc = "idle"
  /\ rq'[p].out = "ok"

ReturnFails(p) ==
  /\ rq[p].pc \in {"rt_write", "rt_commit"}
  /\ rq'[p].pc = "idle"
  /\ rq'[p].out = "error"

\* C10: a return either inserts exactly one return record and raises the
\* stock of its product by the returned quantity, touching no sale line, or,
\* on a storage error, does neither.
C10_ReturnAtomic ==
  [][\A p \in Procs :
       /\ ReturnCommits(p) =>
            /\ ReturnRow(rq[p]) \notin db.returns
            /\ db'.returns = db.returns \cup {ReturnRow(rq[p])}
            /\ rq[p].pid \in db'.prod
            /\ db'.qty[rq[p].pid] = db.qty[rq[p].pid] + rq[p].q
            /\ db'.sales = db.sales
       /\ ReturnFails(p) => db' = db]_vars

\* A return request is answered by its validation.
ReturnValidated(p) == rq[p].pc = "rt_validate" /\ rq'[p].pc # "rt_validate"

\* C11: a return request whose quantity is not positive, whose refund price
\* is negative or whose product is not found is rejected, and the rejection
\* writes nothing: no return record, no stock change; every other request is
\* accepted whatever its original bill identifier, which is compared with no
\* bill.  No committed return record has a quantity <= 0 or a price < 0.
C11_InvalidReturnRejected ==
  /\ [](\A t \in db.returns : t.qty > 0 /\ t.price >= 0)
  /\ [][\A p \in Procs :
          ReturnValidated(p) =>
            LET r == rq[p]
                bad == r.pid \notin db.prod \/ r.q <= 0 \/ r.price < 0
            IN /\ db' = db /\ lock' = lock /\ work' = work
               /\ bad => rq'[p].pc = "idle" /\ rq'[p].out = "rejected"
               /\ ~bad => rq'[p].pc = "rt_write" /\ rq'[p].obill = r.obill]_vars

\* One return was rejected and the tables are untouched, or: a return that
\* names a bill under which nothing was ever sold is committed.
C11_Witness ==
  /\ \E p \in Procs : rq[p].kind = "return" /\ rq[p].out = "rejected"
  /\ \E t \in db.returns :
       t.obill # 0 /\ \A s \in db.sales : s.bill # t.obill

\* A delete_product request arrives and runs its lookups.
DeleteAnswered(p) ==
  /\ rq[p].pc = "idle" /\ nreq' = nreq + 1
  /\ rq'[p].kind = "delete" /\ rq'[p].pid \in db.prod

DeleteCommits(p) ==
  /\ rq[p].pc = "dl_commit"
  /\ rq'[p].pc = "idle"
  /\ rq'[p].out = "ok"

\* C12: a delete_product request for a product that has a sale line or a
\* return record when the request looks for them is refused and changes no
\* row; a request for a product without any goes on to the DELETE, whose
\* commit removes that product row and nothing else.
C12_DeleteRefusedWithHistory ==
  [][\A p \in Procs :
       /\ DeleteAnswered(p) =>
            LET pid == rq'[p].pid
                hist == \/ \E s \in db.sales : s.pid = pid
                        \/ \E t \in db.returns : t.pid = pid
            IN /\ db' = db /\ lock' = lock
               /\ hist => rq'[p].pc = "idle" /\ rq'[p].out = "refused"
               /\ ~hist => rq'[p].pc = "dl_delete"
       /\ DeleteCommits(p) =>
            /\ db'.prod = db.prod \ {rq[p].pid}
            /\ db'.sales = db.sales /\ db'.returns = db.returns
            /\ db'.lastBillNo = db.lastBillNo
            /\ \A x \in db'.prod : db'.qty[x] = db.qty[x]]_vars

\* A product with a return record and no sale line was asked to be deleted:
\* the request was refused and the product is still there.
C12_Witness ==
  \E p \in Procs :
    /\ rq[p].kind = "delete" /\ rq[p].out = "refused"
    /\ rq[p].pid \in db.prod
    /\ \E t \in db.returns : t.pid = rq[p].pid
    /\ \A s \in db.sales : s.pid # rq[p].pid

\* C13: in every reachable state every committed sale line and every
\* committed return record references a product row that exists, also when
\* delete_product runs beside a checkout or a return of the same product.
C13_HistoryReferencesProduct ==
  /\ \A s \in db.sales : s.pid \in db.prod
  /\ \A t \in db.returns : t.pid \in db.prod

\* Number n was returned by a successful counter transaction to a checkout
\* that has ended without committing a sale line: the number is burned.
Burned(n) ==
  /\ \E i \in 1..Len(issued) : issued[i] = n
  /\ \A p \in Procs : ~(InCheckout(p) /\ rq[p].billOk /\ rq[p].bill = n)
  /\ \A s \in db.sales : ~(s.billOk /\ s.bill = n)

\* C14: when a checkout aborts after it obtained bill number n, the counter
\* stays at n or above, no sale line ever carries n and no other checkout
\* works under n; the bill identifiers of the sales table are unique to
\* their checkouts.
C14_BurnedNumberStaysUnused ==
  /\ \A n \in 1..Len(issued) :
       Burned(n) =>
         /\ db.lastBillNo >= n
         /\ \A s \in db.sales : s.bill # n
         /\ \A p \in Procs : InCheckout(p) => rq[p].bill # n
  /\ \A s, t \in db.sales : s.bill = t.bill => s.rid = t.rid

\* A checkout request is answered by the checks of its cart and its form.
CheckoutValidated(p) == rq[p].pc = "co_validate" /\ rq'[p].pc # "co_validate"

\* C15: a checkout request with an empty cart, or with a missing or empty
\* payment method, is rejected before anything is written: the bill counter,
\* the stock, the sales table and the session cart are unchanged and no lock
\* is taken; every other request goes on to ask for its bill number.
C15_RejectedBeforeAnyWrite ==
  [][\A p \in Procs :
       CheckoutValidated(p) =>
         LET bad == Len(rq[p].cart) = 0 \/ rq[p].pay = "none" \/ rq[p].pay = ""
         IN /\ db' = db /\ lock' = lock /\ work' = work /\ issued' = issued
            /\ rq'[p].cart = rq[p].cart
            /\ bad => rq'[p].pc = "idle" /\ rq'[p].out = "rejected"
            /\ ~bad => rq'[p].pc = "gnb_begin"]_vars

\* A checkout with a filled cart and no payment method was rejected after
\* another checkout had sold: the counter, the sales and the cart are there.
C15_Witness ==
  \E p \in Procs :
    /\ rq[p].kind = "checkout" /\ rq[p].out = "rejected"
    /\ rq[p].cart # <<>>
    /\ db.lastBillNo = 1 /\ db.sales # {}
    /\ \A s \in db.sales : s.rid # rq[p].rid

\* A checkout attempt reaches its outcome.
CheckoutEnds(p) ==
  /\ rq[p].kind = "checkout" /\ rq[p].pc # "idle"
  /\ rq[p].out = "none" /\ rq'[p].out # "none"

\* C16: every checkout attempt ends either with all of its sale lines and
\* stock decrements committed and the sale reported as completed, or with
\* none of them committed, its transaction rolled back and a failure shown;
\* no attempt is reported as completed without its lines, or as failed with
\* them.
C16_CommittedOrExplicitFailure ==
  /\ [][\A p \in Procs :
          CheckoutEnds(p) =>
            /\ rq'[p].out \in {"ok", "rejected", "insufficient", "error"}
            /\ rq'[p].out = "ok" => CheckoutWrites(p)
            /\ rq'[p].out # "ok" =>
                 /\ db' = db
                 /\ lock'[DbConn(p)] = "none" /\ work'[DbConn(p)] = NoTxn
                 /\ \A s \in db'.sales : s.rid # rq[p].rid]_vars
  /\ [](\A p \in Procs :
          (rq[p].kind = "checkout" /\ rq[p].out # "none") =>
            (rq[p].out = "ok" <=> \E s \in db.sales : s.rid = rq[p].rid))

\* A checkout failed at its second line, after its first line had been
\* written, by a storage error; none of its lines is committed, while the
\* lines of another checkout are.
C16_Witness ==
  \E p \in Procs :
    /\ rq[p].kind = "checkout" /\ rq[p].out = "error" /\ rq[p].idx = 2
    /\ faults = 1
    /\ db.sales # {}
    /\ \A s \in db.sales : s.rid # rq[p].rid

\* The receipt step of a checkout.
PrintStep(p) == rq[p].pc = "co_print" /\ rq'[p].pc = "idle"

\* C17: when the receipt is not printed (no printer support, or the printer
\* fails) the sale committed before stays committed: the step changes no
\* row, the sale lines are there, the sale stays reported as completed and
\* the print status is shown as a warning; no later step removes a sale
\* line.
C17_PrintFailureKeepsSale ==
  /\ [][\A p \in Procs :
          PrintStep(p) =>
            /\ db' = db /\ lock' = lock
            /\ \E s \in db'.sales : s.rid = rq[p].rid
            /\ rq'[p].out = "ok"
            /\ rq'[p].flash = (IF rq'[p].prn = "printed" THEN "info"
                                ELSE "warning")]_vars
  /\ [][db.sales \subseteq db'.sales]_vars

\* The printer failed after a sale of one line; the line and its stock
\* decrement are committed and the request has ended.
C17_Witness ==
  \E p \in Procs, s \in db.sales :
    /\ rq[p].kind = "checkout" /\ rq[p].pc = "idle" /\ rq[p].out = "ok"
    /\ rq[p].prn = "printer_error" /\ rq[p].flash = "warning"
    /\ s.rid = rq[p].rid
    /\ db.qty[s.pid] = InitStock - s.qty

\* The pieces of product pid on committed return records.
Returned(pid) == SumQty({t \in db.returns : t.pid = pid})

\* C18: in any interleaving of checkouts and returns no stock update is lost:
\* each product's quantity is its initial quantity minus the quantities of
\* its committed sale lines plus the quantities of its committed returns.
C18_NoLostStockUpdate ==
  \A pid \in db.prod :
    db.qty[pid] = InitStock - Sold(pid) + Returned(pid)

\* A return and a checkout of one product were in flight together: the sale
\* was requested after the return and read the stock before the return was
\* committed; both are committed now.
C18_Witness ==
  \E s \in db.sales, t \in db.returns :
    /\ s.pid = t.pid /\ t.rid < s.rid
    /\ s.base = InitStock
    /\ db.qty[s.pid] = InitStock - s.qty + t.qty

\* The days of the period a report row stands for.
PeriodDays(per, key, a, b) ==
  CASE per = "daily" -> {d \in Days : d = key}
    [] per = "weekly" -> {d \in Days : d - (IsoWeekday(d) - 1) = key}
    [] per = "monthly" -> {d \in Days : MonthIdx(d) = key}
    [] per = "yearly" -> {d \in Days : MonthIdx(d) \div 12 = key}
    [] per = "custom" -> {d \in Days : a <= d /\ d <= b}

\* Gross sales, bill discounts and returns value of the committed tables
\* over a set of days.
GrossOver(days) == Amount({x \in db.sales : x.day \in days})
DiscountsOver(days) ==
  DiscountAmount(UniqueDiscounts({x \in db.sales : x.day \in days}))
ReturnsOver(days) == Amount({x \in db.returns : x.day \in days})
NetOver(days) == GrossOver(days) - DiscountsOver(days) - ReturnsOver(days)

\* The net sales a report row must show: the difference over the row's
\* period, to the hundredth in the period reports, exact in the custom
\* range.
NetReported(r, row) ==
  IF r.per = "custom" THEN row.net = NetOver(PeriodDays(r.per, row.key, r.a, r.b))
  ELSE row.net = Round2(NetOver(PeriodDays(r.per, row.key, r.a, r.b)))

\* The periods a call has to report: the last 7 days, 4 weeks, 12 months,
\* every year with a sale, the range.
PeriodsDue(r) ==
  CASE r.per = "daily" -> {r.a - k : k \in 0..(DailyPeriods - 1)}
    [] r.per = "weekly" ->
         {(r.a - 7 * k) - (IsoWeekday(r.a - 7 * k) - 1) :
            k \in 0..(WeeklyPeriods - 1)}
    [] r.per = "monthly" -> {MonthIdx(r.a) - k : k \in 0..(MonthlyPeriods - 1)}
    [] r.per = "yearly" -> {MonthIdx(x.day) \div 12 : x \in db.sales}
    [] r.per = "custom" -> {r.a}

\* C19: for every period of get_sales_analytics (daily, weekly, monthly,
\* yearly) and every range of get_custom_range_analytics, the net sales
\* reported for the period are the gross sales minus the bill discounts
\* minus the returns value of that same period.
C19_NetSalesOfEveryPeriod ==
  \A p \in Procs :
    rq[p].pc = "an_done" =>
      /\ \A i \in DOMAIN rq[p].rep.rows : NetReported(rq[p], rq[p].rep.rows[i])
      /\ \A key \in PeriodsDue(rq[p]) :
           \E i \in DOMAIN rq[p].rep.rows : rq[p].rep.rows[i].key = key

\* The same for the calls other than the yearly one, which hold.
C19_NetSalesExceptYearly ==
  \A p \in Procs :
    (rq[p].pc = "an_done" /\ rq[p].per # "yearly") =>
      /\ rq[p].rep.ok
      /\ \A i \in DOMAIN rq[p].rep.rows : NetReported(rq[p], rq[p].rep.rows[i])
      /\ \A key \in PeriodsDue(rq[p]) :
           \E i \in DOMAIN rq[p].rep.rows : rq[p].rep.rows[i].key = key

\* A period report in which sales, a discount and a return fall in one row.
C19_ReportedWithAllThree ==
  \E p \in Procs :
    /\ rq[p].pc = "an_done"
    /\ rq[p].per \in {"weekly", "custom"}
    /\ \E i \in DOMAIN rq[p].rep.rows :
         /\ rq[p].rep.rows[i].gross > 0
         /\ rq[p].rep.rows[i].disc > 0
         /\ rq[p].rep.rows[i].ret > 0
         /\ rq[p].rep.rows[i].net # rq[p].rep.rows[i].gross

\* The bills (one per checkout) with sale lines in the days from a to b, and
\* the bill-level discount of a bill: the one its checkout wrote on the
\* first line.
BillsIn(a, b) == {x.rid : x \in {y \in db.sales : a <= y.day /\ y.day <= b}}
BillDiscount(rid) ==
  LET first == CHOOSE x \in db.sales : x.rid = rid /\ x.line = 1 IN first.disc

RECURSIVE SumBillDiscounts(_)
SumBillDiscounts(bills) ==
  IF bills = {} THEN 0
  ELSE LET x == CHOOSE y \in bills : TRUE
       IN BillDiscount(x) + SumBillDiscounts(bills \ {x})

\* No two bills carry the same identifier.
UniqueIdentifiers ==
  \A x \in db.sales, y \in db.sales : x.bill = y.bill => x.rid = y.rid

C20_OnceWithUniqueIdentifiers ==
  \A p \in Procs :
    (rq[p].pc = "an_done" /\ rq[p].per = "custom" /\ UniqueIdentifiers) =>
      rq[p].rep.rows[1].disc = SumBillDiscounts(BillsIn(rq[p].a, rq[p].b))

\* A range with a discounted bill of two lines and a second discounted bill.
C20_TwoLineBillInRange ==
  \E p \in Procs :
    /\ rq[p].pc = "an_done" /\ rq[p].per = "custom" /\ UniqueIdentifiers
    /\ \E x \in db.sales :
         /\ x.line = 2 /\ x.rid \in BillsIn(rq[p].a, rq[p].b)
         /\ BillDiscount(x.rid) > 0
    /\ rq[p].rep.rows[1].disc = 2 * DiscountUnit

\* The gross total of the committed lines of one checkout.
BillGross(rid) == Amount({s \in db.sales : s.rid = rid})

\* C21: when a stored percentage discount of value p is selected for the
\* bill, the checkout is carried out, and the discount amount it records on
\* the bill is p percent of the gross total of the cart.
C21_PercentageDiscountRecorded ==
  \A p \in Procs :
    (rq[p].own /\ rq[p].kind = "checkout" /\ rq[p].cart # <<>>) =>
      \A d \in GetDiscount(db, rq[p].did) :
        /\ rq[p].out # "crash"
        /\ \A s \in db.sales :
             (s.rid = rq[p].rid /\ s.line = 1) =>
               \A v \in d.value : 100 * s.disc = v * BillGross(s.rid)

\* C22: get_sales_analytics (every period) and get_custom_range_analytics
\* are read-only: a call leaves the tables and the bill counter as they
\* were and holds no lock after it, whether it returns a result or ends in
\* its error branch.
C22_AnalyticsReadOnly ==
  [][\A p \in Procs :
       (rq'[p] # rq[p] /\ rq'[p].kind = "analytics")
         => db' = db /\ work' = work /\ lock' = lock]_vars

\* A call returned its result and another one, the yearly one, ended in its
\* error branch, over a store with sales on its books.
C22_Witness ==
  \E p, o \in Procs :
    /\ rq[p].pc = "an_done" /\ rq[p].rep.ok
    /\ rq[o].pc = "an_done" /\ ~rq[o].rep.ok
    /\ db.sales # {}

\* C23: after every add_product attempt has completed, the barcode images
\* on disk are those of the barcodes of the committed product rows: a failed
\* insert removes the image it generated, and removes no image of a product
\* that a concurrent add_product with the same barcode has committed.
C23_ImageIffProductRow ==
  (\A p \in Procs : rq[p].pc = "idle") => images = Barcodes(db)

\* The same for the attempts that run one after the other, which holds.
C23_ImageIffRowOneAtATime ==
  [](Cardinality(Adding) <= 1) => [](Adding = {} => images = Barcodes(db))

\* The checkouts that hold bill number n: the requests that got it from
\* their call and the ones that committed lines under it.
Holders(n) ==
  {rq[p].rid : p \in {o \in Procs : rq[o].pc \in {"co_select", "co_write",
                                                  "co_commit", "co_print"}
                                    /\ rq[o].bill = n}}
    \cup {s.rid : s \in {t \in db.sales : t.bill = n}}

\* C24: when the bill_sequence row is missing, the first call that completes
\* re-creates it and issues 1, and 1 is issued once: every other call, the
\* next one or one running beside the recovery, receives 2 or more.
C24_OneIssuedOnce ==
  /\ Len(issued) >= 1 => (issued[1] = 1 /\ db.hasSeq)
  /\ Cardinality(Holders(1)) <= 1

\* The same for the calls that complete without a storage error, which
\* holds.
C24_OnceAmongCompletedCalls ==
  /\ Len(issued) >= 1 => db.hasSeq
  /\ \A i \in 1..Len(issued) : issued[i] = i

\* C25: after any sequence of cart requests (add by scan, add by selection,
\* increase, decrease, remove) every product id is in the session cart at
\* most once and every item has a quantity of 1 or more; a decrease of an
\* item of quantity 1 removes the item.
C25_CartWellFormed ==
  /\ [](/\ IsCart(session.cart)
        /\ \A i \in 1..Len(session.cart) : session.cart[i].qty >= 1)
  /\ [][\A pid \in Products :
          (/\ CartDecrease(pid)
           /\ CartIndex(session.cart, pid) # 0
           /\ session.cart[CartIndex(session.cart, pid)].qty = 1)
            => CartIndex(session'.cart, pid) = 0]_vars

\* A cart of two items, the second one added twice, after the first product
\* put in it was taken out again: the item of product 1 stands behind the
\* item of product 2.
C25_Witness ==
  /\ Len(session.cart) = 2
  /\ session.cart[1].id = 2 /\ session.cart[1].qty = 2
  /\ session.cart[2].id = 1 /\ session.cart[2].qty = 1

\* C26: a checkout that succeeds empties the session cart and clears the
\* selected discount; a checkout that fails, for whatever reason (empty
\* cart, missing payment method, insufficient stock, storage error), leaves
\* the cart and the selected discount of the session as they were.
C26_SessionAfterCheckout ==
  [][\A p \in Procs :
       (rq'[p] # rq[p] /\ rq'[p].own /\ rq'[p].kind = "checkout") =>
         IF rq'[p].pc = "idle" /\ rq'[p].out = "ok"
         THEN session'.cart = <<>> /\ session'.did = 0
         ELSE session' = session]_vars

\* A checkout of the browser failed for insufficient stock after an earlier
\* one had succeeded with a discount selected; the cart and the discount
\* selected since are still in the session.
C26_Witness ==
  \E p \in Procs :
    /\ rq[p].own /\ rq[p].pc = "idle" /\ rq[p].out = "insufficient"
    /\ session.cart = rq[p].cart /\ session.cart # <<>>
    /\ session.did # 0
    /\ db.sales # {}

\* C27: for any two committed bills a and b, if a's bill number is smaller
\* than b's then a's sale timestamp is not later than b's, also when the two
\* checkouts run concurrently.
C27_NumbersFollowTime ==
  \A a, b \in db.sales : a.bill < b.bill => a.time <= b.time

\* The same for bills whose numbers were both handed out by calls of
\* get_next_bill_number that committed the counter.
C27_NumbersFollowTimeNoFallback ==
  \A a, b \in db.sales :
    (a.billOk /\ b.billOk /\ a.bill < b.bill) => a.time <= b.time

\* The request that takes the step, and the session it came with.
Acts(p) == rq'[p] # rq[p]
ActsAs(p) == IF rq[p].pc = "idle" THEN rq'[p].who ELSE rq[p].who

\* What the store holds besides its users, and the barcode images.
Store(v) ==
  <<v.prod, v.qty, v.code, v.lastId, v.hasSeq, v.lastBillNo, v.sales,
    v.returns, v.discounts>>

\* C28: a request made without a logged-in session never changes products,
\* sales, returns, discounts or the bill counter; the only write such a
\* request can make is the insertion of a user while the users table is
\* empty.
C28_GuestWritesOnlyFirstUser ==
  [][\A p \in Procs :
       (Acts(p) /\ ActsAs(p) = "guest") =>
         /\ Store(db') = Store(db)
         /\ images' = images
         /\ db'.users # db.users => db.users = {}]_vars

\* The first half of C28 alone: a request without a logged-in session leaves
\* products, sales, returns, discounts, the bill counter and the barcode
\* images as they are.
C28_GuestLeavesStore ==
  [][\A p \in Procs :
       (Acts(p) /\ ActsAs(p) = "guest") =>
         Store(db') = Store(db) /\ images' = images]_vars

\* The accounts that were not created by a logged-in admin.
OpenAccounts == {u \in db.users : ~u.byAdmin}

\* C29: once the users table holds a user, a registration request from a
\* session that is not a logged-in admin never inserts a user; hence at most
\* one account is ever created by such sessions, also when registration
\* requests run concurrently against the empty users table.
C29_RegistrationClosedAfterFirstUser ==
  /\ [](Cardinality(OpenAccounts) <= 1)
  /\ [][\A p \in Procs :
          (Acts(p) /\ ActsAs(p) # "admin" /\ db'.users # db.users)
            => db.users = {}]_vars

\* A run of the migration completes: it returns at step 1 or after its
\* commit.
Completes(p) ==
  /\ rq[p].kind = "migrate" /\ rq[p].pc # "idle"
  /\ rq'[p].pc = "idle" /\ rq'[p].out \in {"ok", "skipped"}

\* A step of a run that follows a completed run.
SecondRun(p) ==
  /\ rq[p].kind = "migrate" /\ rq[p].pc # "idle"
  /\ rq[p].prev \in {"ok", "skipped"}

\* The row of the table the run found with the id of r.
OldRow(old, r) == CHOOSE o \in old.rows : o.id = r.id

\* The run had to populate the row: one of the new columns was missing or
\* NULL in it.
ToPopulate(o) == o.dtype = {} \/ o.value = {}

\* Both new columns are there and hold a value in every row; the rows are
\* the rows the run found.
NewColumnsFilled(D, old) ==
  /\ NewColumns \subseteq D.cols
  /\ {r.id : r \in D.rows} = {o.id : o \in old.rows}
  /\ \A r \in D.rows : r.dtype # {} /\ r.value # {}
  /\ \A r \in D.rows :
       ~ToPopulate(OldRow(old, r)) =>
         r.dtype = OldRow(old, r).dtype /\ r.value = OldRow(old, r).value

\* C30: a run of migrate_discounts_table that completes, from any column
\* state of the discounts table, leaves discount_type and value present and
\* non-NULL on every row and percent absent, with value equal to the old
\* percent for the rows it populated; a second run changes nothing.
C30_MigrationConverges ==
  [][\A p \in Procs :
       /\ Completes(p) =>
            /\ NewColumnsFilled(db'.discounts, rq[p].old)
            /\ "percent" \notin db'.discounts.cols
            /\ \A r \in db'.discounts.rows :
                 (ToPopulate(OldRow(rq[p].old, r))
                    /\ "percent" \in rq[p].old.cols)
                   => r.value = OldRow(rq[p].old, r).percent
       /\ SecondRun(p) => db' = db]_vars

\* C30 as the code has it: percent is absent after a completed run when the
\* SQLite library knows DROP COLUMN and is left in place (with the new
\* columns filled) when it does not; the value of a populated row is the old
\* percent, 0.0 where the old percent was NULL; a second run changes
\* nothing.
C30_ConvergesWhereDropColumnExists ==
  [][\A p \in Procs :
       /\ Completes(p) =>
            /\ NewColumnsFilled(db'.discounts, rq[p].old)
            /\ "percent" \in db'.discounts.cols
                 <=> ("percent" \in rq[p].old.cols /\ ~canDrop)
            /\ \A r \in db'.discounts.rows :
                 ToPopulate(OldRow(rq[p].old, r))
                   => /\ r.dtype = {"percentage"}
                      /\ r.value = Coalesce(OldRow(rq[p].old, r).percent)
       /\ SecondRun(p) => db' = db]_vars

\* A first run has completed on the old table of a store whose SQLite has
\* no DROP COLUMN: the row is populated from its percent and the percent
\* column is still there.
C30_Witness ==
  \E p \in Procs :
    /\ rq[p].kind = "migrate" /\ rq[p].pc = "idle" /\ rq[p].out = "ok"
    /\ rq[p].old.cols = {"percent"}
    /\ ~canDrop
    /\ "percent" \in db.discounts.cols
    /\ \E r \in db.discounts.rows :
         r.dtype = {"percentage"} /\ r.value = {PercentStep}
                                  /\ r.percent = {PercentStep}

====
